---- MODULE Spec2Model ----
(***************************************************************************)
(* Model of the tenant-scoped client lifecycle of the Shopify layer:       *)
(* ClientPool (internal/infrastructure/shopify/pool.go), the tenant key    *)
(* derivation of ShopifyService.GetClientForTenant, the credential         *)
(* configuration entity (internal/domain/credentials.go), the RateLimiter  *)
(* (internal/infrastructure/shopify/rate_limiter.go), ExecuteWithRetry and *)
(* the calls made through the clients of the pool.                         *)
(*                                                                         *)
(* Strings whose characters matter (project identifiers, environments,     *)
(* tenant keys, secrets) are sequences of one-character strings, so that   *)
(* Go's string concatenation is \o and len() is Len.                       *)
(***************************************************************************)
EXTENDS Naturals, Integers, Sequences, FiniteSets, TLC

\* ------------------------------------------------------------------ bounds
\* Total number of pool calls (GetClient, GetClientForTenant,
\* InvalidateClient) started in one behaviour.
MaxOps == 3

\* Concurrent callers (goroutines serving requests), interchangeable.
Procs == 1..3

\* ------------------------------------------------------------- input sets
\* Project identifiers as they arrive in the X-Project-ID header.
ProjectA  == <<"a">>
ProjectAB == <<"a", "-", "b">>
EmptyStr  == << >>

\* Environments as they arrive in the request context.
EnvC  == <<"c">>
EnvBC == <<"b", "-", "c">>

\* API keys are opaque strings ("k1", "k2"); API secrets (plaintext) are the
\* bytes of "s1" and "s2", which the encryption service seals.
Secret1 == <<115, 49>>
Secret2 == <<115, 50>>

\* ---------------------------------------------------------- domain consts
\* domain.DefaultEnvironment (declared outside the files at hand; the
\* entity comment names "master" as the usual value).
DefaultEnvironment == <<"m", "a", "s", "t", "e", "r">>

\* Characters accepted by isValidProjectID: ^[a-zA-Z0-9_-]{1,64}$
ProjectIDChars ==
    {"a","b","c","d","e","f","g","h","i","j","k","l","m","n","o","p","q",
     "r","s","t","u","v","w","x","y","z",
     "A","B","C","D","E","F","G","H","I","J","K","L","M","N","O","P","Q",
     "R","S","T","U","V","W","X","Y","Z",
     "0","1","2","3","4","5","6","7","8","9","_","-"}

ProjectIDMaxLen == 64

\* middleware.isValidProjectID
isValidProjectID(projectID) ==
    /\ projectID # EmptyStr
    /\ Len(projectID) >= 1
    /\ Len(projectID) <= ProjectIDMaxLen
    /\ \A i \in 1..Len(projectID) : projectID[i] \in ProjectIDChars

\* The pool key built by GetClientForTenant: projectID+"-"+environment
TenantKey(projectID, environment) == projectID \o <<"-">> \o environment

\* GetClientForTenant's fallbacks for the two context values.
ResolveProjectID(ctxProject, tenantID) ==
    IF ctxProject = EmptyStr THEN tenantID ELSE ctxProject

ResolveEnvironment(ctxEnv) ==
    IF ctxEnv = EmptyStr THEN DefaultEnvironment ELSE ctxEnv

\* ------------------------------------------------------------------ cipher
\* gcm.NonceSize(): the standard GCM nonce length in bytes.
NonceSize == 12

\* ------------------------------------------------------------ tenant sets
\* Request contexts of the model: (project id, environment), the project id
\* having passed the input validation middleware.
Tenants == {t \in {<<ProjectA, EnvBC>>, <<ProjectAB, EnvC>>, <<ProjectA, EnvC>>} :
               isValidProjectID(t[1])}

PoolKeys == {TenantKey(t[1], t[2]) : t \in Tenants}

NoKey    == EmptyStr
NoTenant == << >>

\* ------------------------------------------------------------ rate limiter
\* Clock advances in one behaviour.
MaxAdvances == 1

\* NewRateLimiter: 35 requests per window of one minute.
MaxRequests   == 35
WindowSeconds == 60

\* time.Second and the minimum wait of rateBucket.wait, in milliseconds.
MsPerSecond == 1000
MinWaitMs   == 100

\* Goroutines calling the rate limiter, interchangeable.
LProcs == 1..2

\* Shop domains (account keys) the limiter is asked about.
Shops == {"shop1"}

\* Steps by which the clock advances: the minimum wait and one window.
ClockSteps == {MinWaitMs, WindowSeconds * MsPerSecond}

Min(a, b) == IF a < b THEN a ELSE b
Max(a, b) == IF a > b THEN a ELSE b

\* Values of the X-Shopify-Shop-Api-Call-Limit header, as the sequences of
\* the code points of their runes (48..57 are "0".."9", 47 is "/", 45 is "-",
\* 43 is "+", 95 is "_", 9 is the tab, 160 is U+00A0); the empty sequence is
\* the missing header.
\*   Hdr_40_40  "40/40"          Hdr_5_40  "5/" tab U+00A0 "40"
\*   Hdr_45_40  "45/40"          Hdr_m5_40 "-5/40"
\*   Hdr_40_x   "40/x"           Hdr_big_40 "9223372036854775808/40"
\*   Hdr_min_40 "-9223372036854775808/40"
\*   Hdr_5_40u  "5/40_"
Hdr_40_40  == <<52, 48, 47, 52, 48>>
Hdr_5_40   == <<53, 47, 9, 160, 52, 48>>
Hdr_45_40  == <<52, 53, 47, 52, 48>>
Hdr_m5_40  == <<45, 53, 47, 52, 48>>
Hdr_40_x   == <<52, 48, 47, 120>>
Hdr_big_40 == <<57, 50, 50, 51, 51, 55, 50, 48, 51, 54, 56, 53, 52, 55, 55, 53, 56, 48, 56, 47, 52, 48>>
Hdr_min_40 == <<45, 57, 50, 50, 51, 51, 55, 50, 48, 51, 54, 56, 53, 52, 55, 55, 53, 56, 48, 56, 47, 52, 48>>
Hdr_5_40u  == <<53, 47, 52, 48, 95>>
HdrMissing == << >>
Headers == {Hdr_40_40, Hdr_5_40, Hdr_45_40, Hdr_m5_40, Hdr_40_x, Hdr_big_40, Hdr_min_40,
            Hdr_5_40u, HdrMissing}

IsDigit(c) == c \in 48..57
DigitVal(c) == c - 48

\* The table of fmt's isSpace: U+0009..U+000D, U+0020, U+0085, U+00A0,
\* U+1680, U+2000..U+200A, U+2028, U+2029, U+202F, U+205F, U+3000.
SpaceChars ==
    (9..13) \cup {32, 133, 160, 5760} \cup (8192..8202)
        \cup {8232, 8233, 8239, 8287, 12288}
isSpace(r) == r \in SpaceChars

\* ss.SkipSpace of a Sscanf at position i of s: the space runes are passed
\* over, but a newline (10) is an error.  [ok, next].
RECURSIVE SkipSpace(_, _)
SkipSpace(s, i) ==
    IF i > Len(s) THEN [ok |-> TRUE, next |-> i]
    ELSE IF s[i] = 10 THEN [ok |-> FALSE, next |-> i + 1]
    ELSE IF isSpace(s[i]) THEN SkipSpace(s, i + 1)
    ELSE [ok |-> TRUE, next |-> i]

\* ss.scanNumber with the digits of %d, "0123456789": the end of the run of
\* decimal digits from position i.  Any other rune, the underscore too, ends
\* the run and is left unread.
RECURSIVE DigitsEnd(_, _)
DigitsEnd(s, i) ==
    IF i <= Len(s) /\ IsDigit(s[i]) THEN DigitsEnd(s, i + 1) ELSE i

RECURSIVE DecimalValue(_, _, _)
DecimalValue(s, i, j) ==
    IF j < i THEN 0 ELSE 10 * DecimalValue(s, i, j - 1) + DigitVal(s[j])

\* A Go int (64 bits), and what the arithmetic on it goes through, is a sign
\* and a magnitude of three limbs to the base 10^9, the most significant
\* first; zero has no sign.  Int64(n) is the integer n so written and
\* IntOf(v) the integer a value v stands for.
Limb == 10 ^ 9
Abs(n) == IF n < 0 THEN 0 - n ELSE n
Int64(n) ==
    [neg |-> n < 0,
     mag |-> <<(Abs(n) \div Limb) \div Limb, (Abs(n) \div Limb) % Limb, Abs(n) % Limb>>]
IntOf(v) ==
    IF v.neg THEN 0 - (((v.mag[1] * Limb) + v.mag[2]) * Limb + v.mag[3])
    ELSE ((v.mag[1] * Limb) + v.mag[2]) * Limb + v.mag[3]

MagLess(a, b) ==
    \/ a[1] < b[1]
    \/ a[1] = b[1] /\ a[2] < b[2]
    \/ a[1] = b[1] /\ a[2] = b[2] /\ a[3] < b[3]
MagAdd(a, b) ==
    <<a[1] + b[1] + ((a[2] + b[2] + ((a[3] + b[3]) \div Limb)) \div Limb),
      (a[2] + b[2] + ((a[3] + b[3]) \div Limb)) % Limb,
      (a[3] + b[3]) % Limb>>
\* a - b for a >= b; \div rounds down, so that a limb that falls short borrows.
MagSub(a, b) ==
    <<a[1] - b[1] + ((a[2] - b[2] + ((a[3] - b[3]) \div Limb)) \div Limb),
      (a[2] - b[2] + ((a[3] - b[3]) \div Limb)) % Limb,
      (a[3] - b[3]) % Limb>>

\* x - y over the integers, without a width.
BigSub(x, y) ==
    IF x.neg # y.neg /\ y.mag # <<0, 0, 0>>
    THEN [neg |-> x.neg, mag |-> MagAdd(x.mag, y.mag)]
    ELSE IF y.mag = <<0, 0, 0>> THEN x
    ELSE IF MagLess(x.mag, y.mag) THEN [neg |-> ~x.neg, mag |-> MagSub(y.mag, x.mag)]
    ELSE [neg |-> x.neg /\ x.mag # y.mag, mag |-> MagSub(x.mag, y.mag)]

\* 2^63 - 1, 2^63 and 2^64.
MaxInt64 == <<9, 223372036, 854775807>>
MinInt64 == <<9, 223372036, 854775808>>
TwoTo64 == <<18, 446744073, 709551616>>

\* x - y as Go computes it on two ints: the difference wraps around at 64
\* bits.
Wrap64(d) ==
    IF ~d.neg /\ MagLess(MaxInt64, d.mag)
    THEN [neg |-> TRUE, mag |-> MagSub(TwoTo64, d.mag)]
    ELSE IF d.neg /\ MagLess(MinInt64, d.mag)
    THEN [neg |-> FALSE, mag |-> MagSub(TwoTo64, d.mag)]
    ELSE d

Int64Sub(x, y) == Wrap64(BigSub(x, y))

\* The range of strconv.ParseInt(tok, 10, 64), decided on the magnitude of
\* the token: what is above 9223372036854775807, or below
\* -9223372036854775808, is refused.
InInt64Range(mag, negative) ==
    IF negative THEN ~MagLess(MinInt64, mag) ELSE ~MagLess(MaxInt64, mag)

\* fmt's scanning of one %d at position i of s: spaces are skipped, a sign
\* is accepted, then the run of decimal digits is read (an empty run is an
\* error) and handed to strconv.ParseInt in base 10, which refuses a value
\* outside int64 (a run with a digit other than 0 before its last 19 digits
\* is outside).  [ok, val, next].
ScanFail(next) == [ok |-> FALSE, val |-> Int64(0), next |-> next]

\* strconv.ParseInt on the magnitude mag of the token s[b..e-1].
ParseInt(mag, negative, b, e) ==
    IF InInt64Range(mag, negative)
    THEN [ok |-> TRUE, val |-> [neg |-> negative /\ mag # <<0, 0, 0>>, mag |-> mag],
          next |-> e]
    ELSE ScanFail(b)

\* The token of digits s[b..e-1].
ScanNumber(s, negative, b, e) ==
    IF \/ e = b
       \/ \E k \in b..(e - 20) : s[k] # 48
    THEN ScanFail(b)
    ELSE ParseInt(<<DecimalValue(s, Max(b, e - 19), e - 19),
                    DecimalValue(s, Max(b, e - 18), e - 10),
                    DecimalValue(s, Max(b, e - 9), e - 1)>>, negative, b, e)

\* The sign, if any, at the position sp.next the spaces end at.
ScanSigned(s, sp) ==
    IF ~sp.ok THEN ScanFail(sp.next)
    ELSE IF sp.next <= Len(s) /\ s[sp.next] = 45
    THEN ScanNumber(s, TRUE, sp.next + 1, DigitsEnd(s, sp.next + 1))
    ELSE IF sp.next <= Len(s) /\ s[sp.next] = 43
    THEN ScanNumber(s, FALSE, sp.next + 1, DigitsEnd(s, sp.next + 1))
    ELSE ScanNumber(s, FALSE, sp.next, DigitsEnd(s, sp.next))

ScanInt(s, i) == ScanSigned(s, SkipSpace(s, i))

\* fmt.Sscanf(limitHeader, "%d/%d", &used, &limit): [ok, used, limit], the
\* two numbers as Go ints; whatever follows the second number is not read.
SscanfFail == [ok |-> FALSE, used |-> Int64(0), limit |-> Int64(0)]

\* The second number l, the first having been read as used.
ScanLimit(used, l) ==
    IF l.ok THEN [ok |-> TRUE, used |-> used, limit |-> l.val] ELSE SscanfFail

\* The "/" of the format after the first number u.
ScanSlash(limitHeader, u) ==
    IF ~u.ok \/ u.next > Len(limitHeader) \/ limitHeader[u.next] # 47
    THEN SscanfFail
    ELSE ScanLimit(u.val, ScanInt(limitHeader, u.next + 1))

Sscanf(limitHeader) == ScanSlash(limitHeader, ScanInt(limitHeader, 1))

\* A rateBucket; mu is the holder of its mutex, 0 when unlocked.
NoBucket == [exists |-> FALSE, tokens |-> 0, lastRefill |-> 0, maxTokens |-> 0,
             refillRate |-> 0, mu |-> 0]

\* RateLimiter.getBucket, the creation of a bucket at time t.
NewBucket(t) ==
    [exists |-> TRUE, tokens |-> MaxRequests, lastRefill |-> t,
     maxTokens |-> MaxRequests, refillRate |-> MaxRequests \div WindowSeconds,
     mu |-> 0]

\* rateBucket.refill at time t.
refill(rb, t) ==
    LET elapsed == t - rb.lastRefill
        tokensToAdd == (elapsed \div MsPerSecond) * rb.refillRate
    IN  IF elapsed <= 0 THEN rb
        ELSE IF tokensToAdd > 0
             THEN [rb EXCEPT !.tokens = Min(rb.tokens + tokensToAdd, rb.maxTokens),
                             !.lastRefill = t]
             ELSE rb

\* rate_limiter.go:157: max(0, limit-used), the difference being that of two
\* Go ints.
MaxZero(d) == IF d.neg THEN 0 ELSE IntOf(d)

ObservedTokens(used, limit) == MaxZero(Int64Sub(limit, used))

\* rate_limiter.go:153-160: the overwrite of the bucket from a header that
\* is there and that Sscanf has parsed as p.
OverwriteFromHeader(rb, limitHeader, p) ==
    IF limitHeader # HdrMissing /\ p.ok
    THEN [rb EXCEPT !.tokens = ObservedTokens(p.used, p.limit),
                    !.maxTokens = IntOf(p.limit)]
    ELSE rb

\* rate_limiter.go:163-165: at the limit the time of the last refill is now.
RefillTimeAtLimit(rb, t) ==
    IF rb.tokens = 0 THEN [rb EXCEPT !.lastRefill = t] ELSE rb

\* rateBucket.updateFromHeaders at time t, without its locking.
updateFromHeaders(rb, limitHeader, t) ==
    RefillTimeAtLimit(OverwriteFromHeader(rb, limitHeader, Sscanf(limitHeader)), t)

\* A wait that would return without taking its token.
ConsumeNothing(rb) == rb

\* rate_limiter.go:100 and 120
ConsumeToken(rb) == [rb EXCEPT !.tokens = @ - 1]

\* rate_limiter.go:105-108: the timer of a wait that found no token.  With
\* refillRate = 0 the division gives +Inf, whose conversion to a Duration
\* depends on the platform: the smallest int64 (raised to the minimum wait)
\* or the largest one (a timer that never fires while the clock is watched).
WaitTimes(refillRate) ==
    IF refillRate = 0
    THEN {[fires |-> TRUE, ms |-> MinWaitMs], [fires |-> FALSE, ms |-> 0]}
    ELSE {[fires |-> TRUE, ms |-> Max(MsPerSecond \div refillRate, MinWaitMs)]}

NoTimer == [fires |-> FALSE, at |-> 0]

ErrRateLimit == "rate limit exceeded, please retry"
ErrCanceled  == "context canceled"

\* History of a bucket: no UpdateFromResponse has reached it since its
\* creation (fresh), the Wait calls that took a token from the fresh bucket
\* without sleeping, whether a Wait call has slept on it, and whether a whole
\* window has passed since a token was last taken or the bucket was updated
\* (idle).
NoBHist == [fresh |-> FALSE, okNoSleep |-> 0, slept |-> FALSE, idle |-> FALSE,
            created |-> 0]

IdleLLoc == [op |-> "none", shop |-> "", header |-> HdrMissing, ctxDone |-> FALSE,
             timer |-> NoTimer, err |-> "", tokens |-> 0]

\* ----------------------------------------------------------- retry executor
\* RetryConfig; delays are in milliseconds and BackoffFactor in tenths.
DefaultRetryConfig ==
    [MaxRetries |-> 3, InitialDelay |-> 100, MaxDelay |-> 5000,
     BackoffFactor |-> 20, RetryableErrors |-> {429, 500, 502, 503, 504}]

\* Configurations ExecuteWithRetry is called with: the default one, one
\* without retries, one whose MaxRetries is negative, one whose delay reaches
\* MaxDelay, and one whose InitialDelay is above its MaxDelay (RetryConfig is
\* a plain struct: nothing validates its fields).
RetryConfigs ==
    {DefaultRetryConfig,
     [DefaultRetryConfig EXCEPT !.MaxRetries = 0],
     [DefaultRetryConfig EXCEPT !.MaxRetries = 0 - 1],
     [DefaultRetryConfig EXCEPT !.MaxRetries = 2, !.MaxDelay = 150],
     [DefaultRetryConfig EXCEPT !.MaxRetries = 1, !.InitialDelay = 200,
                                !.MaxDelay = 150]}

\* Errors an attempt returns: none, a net.Error that timed out, a net.Error
\* that neither timed out nor is temporary, the two context errors, any
\* other error.
NoErr          == "nil"
ErrNetTimeout  == "net timeout"
ErrCtxCanceled == "context canceled"
ErrCtxDeadline == "context deadline exceeded"
ErrNetRefused  == "net connection refused"
ErrOther       == "other error"

\* The errors that satisfy net.Error (part_010:44), and what their Timeout()
\* and Temporary() answer: context.DeadlineExceeded is one of them, both of
\* its methods answer true; context.Canceled is not.
NetErrors == {ErrNetTimeout, ErrNetRefused, ErrCtxDeadline}
Timeout(err) == err \in {ErrNetTimeout, ErrCtxDeadline}
Temporary(err) == err \in {ErrCtxDeadline}

\* What one invocation of the attempt function returns: the status of its
\* response (0 when there is no response) and its error.
AttemptOutcomes ==
    {[status |-> 200, err |-> NoErr],
     [status |-> 404, err |-> NoErr],
     [status |-> 404, err |-> ErrOther],
     [status |-> 429, err |-> NoErr],
     [status |-> 503, err |-> ErrOther],
     [status |-> 0,   err |-> ErrNetTimeout],
     [status |-> 0,   err |-> ErrCtxCanceled],
     [status |-> 0,   err |-> ErrCtxDeadline]}

\* isRetryableError (part_010:34-54)
isRetryableError(err, statusCode, retryableStatuses) ==
    IF statusCode \in retryableStatuses THEN TRUE
    ELSE IF err # NoErr /\ err \in NetErrors THEN Timeout(err) \/ Temporary(err)
    ELSE FALSE

\* part_010:101: the test under which ExecuteWithRetry returns the outcome
\* of the attempt.
AttemptNeverReturns(o, retryConfig) == FALSE
AttemptReturns(o, retryConfig) ==
    o.err = NoErr /\ ~isRetryableError(o.err, o.status, retryConfig.RetryableErrors)

\* part_010:86-89: the delay after a backoff wait.
NextDelay(delay, retryConfig) ==
    LET d == (delay * retryConfig.BackoffFactor) \div 10
    IN  IF d > retryConfig.MaxDelay THEN retryConfig.MaxDelay ELSE d

\* part_010:79-83: the case the select of the backoff wait takes. The timer
\* is created at the select and its delay is positive, so it is never ready
\* before the wait begins; a context that is done wins the select.
BackoffSelectTimer(ctxDone) == "timer"
BackoffSelect(ctxDone) == IF ctxDone THEN "done" ELSE "timer"

ErrMaxRetries == "max retries exceeded"

NoRetryResult == [ok |-> FALSE, status |-> 0, err |-> NoErr, wraps |-> NoErr]

\* The ExecuteWithRetry call: its position, its locals (attempt, delay,
\* lastErr, lastResp), its context, its result and, as history, the outcomes
\* of its attempts, the backoff delays it has waited and the position it
\* was at when its context was cancelled.
IdleRx == [pc |-> "idle", config |-> DefaultRetryConfig, attempt |-> 0, delay |-> 0,
           lastErr |-> NoErr, lastStatus |-> 0, ctxDone |-> FALSE,
           outs |-> << >>, waits |-> << >>, result |-> NoRetryResult,
           cancelledIn |-> "none"]

\* ------------------------------------------------------ webhook verification
\* Strings are sequences of characters and byte slices sequences of 0..255.

\* sha256.Size: the length of an HMAC-SHA256 in bytes.
DigestSize == 32

\* ------------------------------------------------------------- bits, bytes
\* The exclusive or and the conjunction of two numbers of 4 bits, as tables.
NibbleXor ==
    [a \in 0..15 |-> [b \in 0..15 |->
        ((a + b) % 2) + (2 * (((a \div 2) + (b \div 2)) % 2))
            + (4 * (((a \div 4) + (b \div 4)) % 2))
            + (8 * (((a \div 8) + (b \div 8)) % 2))]]
NibbleAnd ==
    [a \in 0..15 |-> [b \in 0..15 |->
        ((a % 2) * (b % 2)) + (2 * (((a \div 2) % 2) * ((b \div 2) % 2)))
            + (4 * (((a \div 4) % 2) * ((b \div 4) % 2)))
            + (8 * ((a \div 8) * (b \div 8)))]]

\* a ^ b and a & b on bytes and on numbers of 16 bits.
ByteXor(a, b) == (16 * NibbleXor[a \div 16][b \div 16]) + NibbleXor[a % 16][b % 16]
ByteAnd(a, b) == (16 * NibbleAnd[a \div 16][b \div 16]) + NibbleAnd[a % 16][b % 16]
BitXor(a, b) == (256 * ByteXor(a \div 256, b \div 256)) + ByteXor(a % 256, b % 256)
BitAnd(a, b) == (256 * ByteAnd(a \div 256, b \div 256)) + ByteAnd(a % 256, b % 256)

\* The exclusive or of two sequences of bytes of one length.
BytesXor(a, b) == [i \in 1..Len(a) |-> ByteXor(a[i], b[i])] \o << >>

\* binary.BigEndian.PutUint32 of a number below 2^31.
BigEndian32(n) ==
    <<n \div 16777216, (n \div 65536) % 256, (n \div 256) % 256, n % 256>>

\* ------------------------------------------------------------------ SHA-256
\* crypto/sha256 (FIPS 180-4) on sequences of bytes. A 32-bit word is the
\* pair of its two 16-bit halves, the high one first. A recursion evaluates
\* the value it hands on before it goes on (IF n = n).
WXor(x, y) == <<BitXor(x[1], y[1]), BitXor(x[2], y[2])>>
WAnd(x, y) == <<BitAnd(x[1], y[1]), BitAnd(x[2], y[2])>>
WNot(x) == <<65535 - x[1], 65535 - x[2]>>
WAdd(x, y) ==
    LET lo == x[2] + y[2]
        hi == x[1] + y[1] + (lo \div 65536)
    IN  <<hi % 65536, lo % 65536>>

\* Rotation and shift to the right by n bits, 0 < n < 32 and 0 < n < 16.
RotR(x, n) ==
    LET y == IF n >= 16 THEN <<x[2], x[1]>> ELSE x
        m == n % 16
    IN  IF m = 0 THEN y
        ELSE <<(y[1] \div (2 ^ m)) + ((y[2] % (2 ^ m)) * (2 ^ (16 - m))),
               (y[2] \div (2 ^ m)) + ((y[1] % (2 ^ m)) * (2 ^ (16 - m)))>>
ShR(x, n) ==
    <<x[1] \div (2 ^ n),
      (x[2] \div (2 ^ n)) + ((x[1] % (2 ^ n)) * (2 ^ (16 - n)))>>

Ch(x, y, z) == WXor(WAnd(x, y), WAnd(WNot(x), z))
Maj(x, y, z) == WXor(WXor(WAnd(x, y), WAnd(x, z)), WAnd(y, z))
BigSigma0(x) == WXor(WXor(RotR(x, 2), RotR(x, 13)), RotR(x, 22))
BigSigma1(x) == WXor(WXor(RotR(x, 6), RotR(x, 11)), RotR(x, 25))
SmallSigma0(x) == WXor(WXor(RotR(x, 7), RotR(x, 18)), ShR(x, 3))
SmallSigma1(x) == WXor(WXor(RotR(x, 17), RotR(x, 19)), ShR(x, 10))

\* The round constants and the initial hash value.
Sha256K == <<
    <<17034, 12184>>, <<28983, 17553>>, <<46528, 64463>>, <<59829, 56229>>,
    <<14678, 49755>>, <<23025, 4593>>, <<37439, 33444>>, <<43804, 24277>>,
    <<55303, 43672>>, <<4739, 23297>>, <<9265, 34238>>, <<21772, 32195>>,
    <<29374, 23924>>, <<32990, 45566>>, <<39900, 1703>>, <<49563, 61812>>,
    <<58523, 27073>>, <<61374, 18310>>, <<4033, 40390>>, <<9228, 41420>>,
    <<11753, 11375>>, <<19060, 33962>>, <<23728, 43484>>, <<30457, 35034>>,
    <<38974, 20818>>, <<43057, 50797>>, <<45059, 10184>>, <<48985, 32711>>,
    <<50912, 3059>>, <<54695, 37191>>, <<1738, 25425>>, <<5161, 10599>>,
    <<10167, 2693>>, <<11803, 8504>>, <<19756, 28156>>, <<21304, 3347>>,
    <<25866, 29524>>, <<30314, 2747>>, <<33218, 51502>>, <<37490, 11397>>,
    <<41663, 59553>>, <<43034, 26187>>, <<49739, 35696>>, <<51052, 20899>>,
    <<53650, 59417>>, <<54937, 1572>>, <<62478, 13701>>, <<4202, 41072>>,
    <<6564, 49430>>, <<7735, 27656>>, <<10056, 30540>>, <<13488, 48309>>,
    <<14620, 3251>>, <<20184, 43594>>, <<23452, 51791>>, <<26670, 28659>>,
    <<29839, 33518>>, <<30885, 25455>>, <<33992, 30740>>, <<36039, 520>>,
    <<37054, 65530>>, <<42064, 27883>>, <<48889, 41975>>, <<50801, 30962>> >>
Sha256H0 == <<
    <<27145, 58983>>, <<47975, 44677>>, <<15470, 62322>>, <<42319, 62778>>,
    <<20750, 21119>>, <<39685, 26764>>, <<8067, 55723>>, <<23520, 52505>> >>

\* The message schedule of a block of 16 words: word t of the schedule w, and
\* the schedule with its words from lo to hi appended in their order (the
\* first half of them, then the second).
ScheduleWord(w, t) ==
    WAdd(WAdd(SmallSigma1(w[t - 2]), w[t - 7]),
         WAdd(SmallSigma0(w[t - 15]), w[t - 16]))
RECURSIVE ScheduleRange(_, _, _)
ScheduleFrom(w, lo, hi) == IF w = w THEN ScheduleRange(w, lo, hi) ELSE w
ScheduleRange(w, lo, hi) ==
    IF lo = hi THEN Append(w, ScheduleWord(w, lo))
    ELSE ScheduleFrom(ScheduleRange(w, lo, (lo + hi) \div 2),
                      ((lo + hi) \div 2) + 1, hi)
Schedule(w) == ScheduleRange(w, 17, 64)

\* One round on the working variables v = <<a, b, c, d, e, f, g, h>>, with
\* the constant k and the word x of the round, and the rounds lo to hi in
\* their order (the first half of them, then the second).
RoundT1(v, k, x) ==
    WAdd(WAdd(WAdd(v[8], BigSigma1(v[5])), Ch(v[5], v[6], v[7])), WAdd(k, x))
RoundT2(v) == WAdd(BigSigma0(v[1]), Maj(v[1], v[2], v[3]))
Round(v, t1, t2) ==
    <<WAdd(t1, t2), v[1], v[2], v[3], WAdd(v[4], t1), v[5], v[6], v[7]>>
RECURSIVE RoundsRange(_, _, _, _)
RoundsFrom(v, w, lo, hi) == IF v = v THEN RoundsRange(v, w, lo, hi) ELSE v
RoundsRange(v, w, lo, hi) ==
    IF lo = hi THEN Round(v, RoundT1(v, Sha256K[lo], w[lo]), RoundT2(v))
    ELSE RoundsFrom(RoundsRange(v, w, lo, (lo + hi) \div 2),
                    w, ((lo + hi) \div 2) + 1, hi)
Rounds(v, w) == RoundsRange(v, w, 1, 64)

\* The words of a sequence of bytes whose length is a multiple of 4, and the
\* bytes of a sequence of words.
BytesToWords(b) ==
    [i \in 1..(Len(b) \div 4) |->
        <<(b[(4 * i) - 3] * 256) + b[(4 * i) - 2], (b[(4 * i) - 1] * 256) + b[4 * i]>>]
        \o << >>
WordByte(x, k) ==
    IF k = 0 THEN x[1] \div 256
    ELSE IF k = 1 THEN x[1] % 256
    ELSE IF k = 2 THEN x[2] \div 256
    ELSE x[2] % 256
WordsToBytes(w) ==
    [i \in 1..(4 * Len(w)) |-> WordByte(w[(i + 3) \div 4], (i - 1) % 4)] \o << >>

\* The hash value after the blocks of b from block n on, from the value h:
\* the working variables after the rounds of a block are added to the value.
AddWords(h, v) == [i \in 1..8 |-> WAdd(h[i], v[i])] \o << >>
RECURSIVE Compress(_, _, _)
CompressFrom(g, b, n) == IF g = g THEN Compress(g, b, n) ELSE g
Compress(h, b, n) ==
    IF 64 * n > Len(b) THEN h
    ELSE CompressFrom(
             AddWords(h, Rounds(h, Schedule(BytesToWords(
                             SubSeq(b, (64 * n) - 63, 64 * n))))),
             b, n + 1)

\* The padding: a byte 128, zeros up to 56 modulo 64, the length in bits on
\* 8 bytes.
Sha256Pad(msg) ==
    msg \o <<128>> \o [i \in 1..((119 - (Len(msg) % 64)) % 64) |-> 0]
        \o <<0, 0, 0, 0>> \o BigEndian32(8 * Len(msg))

\* sha256.Sum256
Sha256(msg) == WordsToBytes(Compress(Sha256H0, Sha256Pad(msg), 1))

\* sha256.BlockSize
BlockSize == 2 * DigestSize

\* crypto/hmac with SHA-256 (RFC 2104): a key longer than a block is hashed,
\* and the key is filled with zeros to the block; the digest is the hash of
\* the key xored with 0x5c before the hash of the key xored with 0x36 before
\* the message.
ZeroPad(k) == [i \in 1..BlockSize |-> IF i <= Len(k) THEN k[i] ELSE 0] \o << >>
HmacKey(key) == ZeroPad(IF Len(key) > BlockSize THEN Sha256(key) ELSE key)
XorPad(k, c) == [i \in 1..Len(k) |-> ByteXor(k[i], c)] \o << >>
HmacOfKey(k, msg) == Sha256(XorPad(k, 92) \o Sha256(XorPad(k, 54) \o msg))
HmacSum(key, msg) == HmacOfKey(HmacKey(key), msg)

\* The secrets and the bodies of the model: two bodies of 2 bytes that differ
\* in one byte, and two of 40 bytes that differ in their 35th byte.
WebhookSecrets == {<<115, 49>>, <<115, 50>>}
Bodies ==
    {<<123, 125>>, <<123, 124>>,
     [i \in 1..40 |-> 64 + i] \o << >>,
     [i \in 1..40 |-> IF i = 35 THEN 33 ELSE 64 + i] \o << >>}

\* The digests of the bodies of the model under its secrets.
HmacTable == {<<k, b, HmacSum(k, b)>> : k \in WebhookSecrets, b \in Bodies}

\* hmac.New(sha256.New, key); mac.Write(msg); mac.Sum(nil): the digest of
\* HMAC-SHA256, read from the table where the table has it.
HmacSha256(key, msg) ==
    IF key \in WebhookSecrets /\ msg \in Bodies
    THEN (CHOOSE r \in HmacTable : r[1] = key /\ r[2] = msg)[3]
    ELSE HmacSum(key, msg)

\* hmac.Equal: equal lengths and equal bytes.
hmacEqualLengths(mac1, mac2) == Len(mac1) = Len(mac2)
hmacEqual(mac1, mac2) == mac1 = mac2

\* The alphabet of base64.StdEncoding, and its padding character.
B64Chars ==
    <<"A", "B", "C", "D", "E", "F", "G", "H", "I", "J", "K", "L", "M",
      "N", "O", "P", "Q", "R", "S", "T", "U", "V", "W", "X", "Y", "Z",
      "a", "b", "c", "d", "e", "f", "g", "h", "i", "j", "k", "l", "m",
      "n", "o", "p", "q", "r", "s", "t", "u", "v", "w", "x", "y", "z",
      "0", "1", "2", "3", "4", "5", "6", "7", "8", "9", "+", "/">>
B64Pad == "="

IsB64(c) == \E i \in 1..64 : B64Chars[i] = c
B64Val(c) == (CHOOSE i \in 1..64 : B64Chars[i] = c) - 1

\* base64.StdEncoding.EncodeToString
RECURSIVE Base64Encode(_)
Base64Encode(b) ==
    IF Len(b) = 0 THEN << >>
    ELSE LET x == b[1]
             y == IF Len(b) >= 2 THEN b[2] ELSE 0
             z == IF Len(b) >= 3 THEN b[3] ELSE 0
             c1 == B64Chars[(x \div 4) + 1]
             c2 == B64Chars[((x % 4) * 16) + (y \div 16) + 1]
             c3 == B64Chars[((y % 16) * 4) + (z \div 64) + 1]
             c4 == B64Chars[(z % 64) + 1]
         IN  IF Len(b) = 1 THEN <<c1, c2, B64Pad, B64Pad>>
             ELSE IF Len(b) = 2 THEN <<c1, c2, c3, B64Pad>>
             ELSE <<c1, c2, c3, c4>> \o Base64Encode(SubSeq(b, 4, Len(b)))

\* base64.StdEncoding.DecodeString: [ok, bytes]. Carriage returns and line
\* feeds are skipped; the rest is quanta of four characters with padding
\* only at the end of the last one; the bits of the last character that do
\* not belong to a byte are not checked.
NotNewline(c) == c \notin {"\n", "\r"}

RECURSIVE DecodeQuanta(_)
DecodeQuanta(s) ==
    IF Len(s) = 0 THEN [ok |-> TRUE, bytes |-> << >>]
    ELSE IF Len(s) < 4 THEN [ok |-> FALSE, bytes |-> << >>]
    ELSE IF ~IsB64(s[1]) \/ ~IsB64(s[2]) THEN [ok |-> FALSE, bytes |-> << >>]
    ELSE LET v1 == B64Val(s[1])
             v2 == B64Val(s[2])
             b1 == (v1 * 4) + (v2 \div 16)
         IN  IF s[3] = B64Pad
             THEN IF Len(s) = 4 /\ s[4] = B64Pad
                  THEN [ok |-> TRUE, bytes |-> <<b1>>]
                  ELSE [ok |-> FALSE, bytes |-> << >>]
             ELSE IF ~IsB64(s[3]) THEN [ok |-> FALSE, bytes |-> << >>]
             ELSE LET v3 == B64Val(s[3])
                      b2 == ((v2 % 16) * 16) + (v3 \div 4)
                  IN  IF s[4] = B64Pad
                      THEN IF Len(s) = 4
                           THEN [ok |-> TRUE, bytes |-> <<b1, b2>>]
                           ELSE [ok |-> FALSE, bytes |-> << >>]
                      ELSE IF ~IsB64(s[4]) THEN [ok |-> FALSE, bytes |-> << >>]
                      ELSE LET b3 == ((v3 % 4) * 64) + B64Val(s[4])
                               rest == DecodeQuanta(SubSeq(s, 5, Len(s)))
                           IN  IF rest.ok
                               THEN [ok |-> TRUE, bytes |-> <<b1, b2, b3>> \o rest.bytes]
                               ELSE [ok |-> FALSE, bytes |-> << >>]

Base64Decode(s) == DecodeQuanta(SelectSeq(s, NotNewline))

\* The digits of encoding/hex: EncodeToString writes the lower-case ones,
\* DecodeString reads both cases.
HexChars ==
    <<"0", "1", "2", "3", "4", "5", "6", "7", "8", "9", "a", "b", "c", "d", "e", "f">>
HexUpper == <<"A", "B", "C", "D", "E", "F">>

IsHex(c) == (\E i \in 1..16 : HexChars[i] = c) \/ (\E i \in 1..6 : HexUpper[i] = c)
HexVal(c) ==
    IF \E i \in 1..16 : HexChars[i] = c
    THEN (CHOOSE i \in 1..16 : HexChars[i] = c) - 1
    ELSE (CHOOSE i \in 1..6 : HexUpper[i] = c) + 9

\* hex.EncodeToString
RECURSIVE HexEncode(_)
HexEncode(b) ==
    IF Len(b) = 0 THEN << >>
    ELSE <<HexChars[(b[1] \div 16) + 1], HexChars[(b[1] % 16) + 1]>>
         \o HexEncode(SubSeq(b, 2, Len(b)))

\* hex.DecodeString: [ok, bytes]; an odd length or a character that is not
\* a hexadecimal digit is an error.
RECURSIVE HexDecode(_)
HexDecode(s) ==
    IF Len(s) = 0 THEN [ok |-> TRUE, bytes |-> << >>]
    ELSE IF Len(s) = 1 \/ ~IsHex(s[1]) \/ ~IsHex(s[2])
    THEN [ok |-> FALSE, bytes |-> << >>]
    ELSE LET rest == HexDecode(SubSeq(s, 3, Len(s)))
         IN  IF rest.ok
             THEN [ok |-> TRUE, bytes |-> <<(HexVal(s[1]) * 16) + HexVal(s[2])>> \o rest.bytes]
             ELSE [ok |-> FALSE, bytes |-> << >>]

\* The errors of webhook verification; VerifyWebhookHMAC words two of them
\* differently.
VerifyOk            == "nil"
ErrMissingHeader    == "missing X-Shopify-Hmac-SHA256 header"
ErrMissingHMAC      == "missing HMAC header"
ErrDecodeHMAC       == "failed to decode HMAC"
ErrSignatureFailed  == "webhook signature verification failed"
ErrHMACFailed       == "webhook HMAC verification failed"

\* WebhookVerifier.Verify (webhook_verifier.go:23-45) of a verifier holding
\* apiSecret.
Verify(apiSecret, body, hmacHeader) ==
    IF hmacHeader = << >> THEN ErrMissingHeader
    ELSE LET expectedHMAC == HmacSha256(apiSecret, body)
             receivedHMAC == Base64Decode(hmacHeader)
         IN  IF ~receivedHMAC.ok THEN ErrDecodeHMAC
             ELSE IF ~hmacEqual(receivedHMAC.bytes, expectedHMAC)
             THEN ErrSignatureFailed
             ELSE VerifyOk

\* part_009:70-77: the header decoded as base64 and, when that fails, as
\* hexadecimal.
DecodeOrEmpty(hmacHeader) ==
    LET b == Base64Decode(hmacHeader)
    IN  IF b.ok THEN b
        ELSE [ok |-> TRUE, bytes |-> HexDecode(hmacHeader).bytes]
DecodeWithFallback(hmacHeader) ==
    LET b == Base64Decode(hmacHeader)
    IN  IF b.ok THEN b ELSE HexDecode(hmacHeader)

\* VerifyWebhookHMAC (part_009:59-85)
VerifyWebhookHMAC(body, hmacHeader, apiSecret) ==
    IF hmacHeader = << >> THEN ErrMissingHMAC
    ELSE LET expectedHMAC == HmacSha256(apiSecret, body)
             receivedHMAC == DecodeWithFallback(hmacHeader)
         IN  IF ~receivedHMAC.ok THEN ErrDecodeHMAC
             ELSE IF ~hmacEqual(receivedHMAC.bytes, expectedHMAC)
             THEN ErrHMACFailed
             ELSE VerifyOk

\* The signature headers of verification: the base64 and the hexadecimal
\* form of the HMAC of every body under every secret, the empty header, and
\* headers that are base64 only, hexadecimal only, or neither.
Encodings(digest) == {Base64Encode(digest), HexEncode(digest)}
SignedHeaders ==
    UNION {Encodings(HmacSha256(k, b)) : k \in WebhookSecrets, b \in Bodies}
OtherHeaders ==
    {<<"z", "z", "z", "z">>, <<"a", "b">>, <<"a", "b", "c">>, <<"!", "!">>}
SignatureHeaders == SignedHeaders \cup OtherHeaders \cup {<< >>}

NoVerifier == << >>
NoVres == [fn |-> "none", secret |-> << >>, body |-> << >>, header |-> << >>,
           err |-> VerifyOk]

\* --------------------------------------------------------- webhook endpoint
\* net/http status codes the endpoint answers with.
StatusOK                  == 200
StatusBadRequest          == 400
StatusUnauthorized        == 401
StatusInternalServerError == 500

WebhookShops  == {<< >>, <<"s">>}
WebhookTopics == {<< >>, <<"a">>}

\* No domain.WebhookEvent has been built.
NoEvent == [made |-> FALSE, topic |-> << >>, shop |-> << >>, payload |-> << >>,
            verified |-> FALSE]

NoResp == [served |-> FALSE, shop |-> << >>, topic |-> << >>, payload |-> << >>,
           hmacHeader |-> << >>, readErr |-> FALSE, logErr |-> FALSE,
           status |-> 0, event |-> NoEvent, logged |-> FALSE]

\* -------------------------------------------------------- webhook dispatcher
\* The most handlers registered with the dispatcher.
MaxHandlers == 3

\* The handlers there are to register, and the topics each can handle
\* (WebhookHandler.CanHandle).
HandlerTopics == [h1 |-> {"a"}, h2 |-> {"a", "b"}, h3 |-> {"c"}]
Handlers == DOMAIN HandlerTopics
DispatchTopics == {"a", "b"}
CanHandle(h, topic) == topic \in HandlerTopics[h]

\* The Dispatch call: its position, the topic of its event, its snapshot of
\* the handlers, the index its loop is at, the error it returns ("" until it
\* returns) and, as history, the positions whose Handle it has invoked, in
\* order of invocation.
IdleDp == [pc |-> "idle", topic |-> "", snapshot |-> << >>, i |-> 0,
           handled |-> FALSE, invoked |-> << >>, err |-> ""]

\* ------------------------------------------------------- encryption service
\* encryption.Service at the level of bytes, with its key and its base64
\* framing (Encrypt and Decrypt above are the same two functions as the
\* tenant resolution sees them: one service, blobs not yet encoded).

\* The tag gcm.Seal appends, in bytes (GCM's standard overhead).
TagSize == 16

\* ------------------------------------------------------------------ AES-256
\* crypto/aes (FIPS 197): a key of nk = 4, 6 or 8 words of 4 bytes, nk + 6
\* rounds, a key schedule of 4 * (nk + 7) words. A block is the sequence of
\* its 16 bytes.
SBox == <<
    99, 124, 119, 123, 242, 107, 111, 197, 48, 1, 103, 43, 254, 215, 171, 118,
    202, 130, 201, 125, 250, 89, 71, 240, 173, 212, 162, 175, 156, 164, 114, 192,
    183, 253, 147, 38, 54, 63, 247, 204, 52, 165, 229, 241, 113, 216, 49, 21,
    4, 199, 35, 195, 24, 150, 5, 154, 7, 18, 128, 226, 235, 39, 178, 117,
    9, 131, 44, 26, 27, 110, 90, 160, 82, 59, 214, 179, 41, 227, 47, 132,
    83, 209, 0, 237, 32, 252, 177, 91, 106, 203, 190, 57, 74, 76, 88, 207,
    208, 239, 170, 251, 67, 77, 51, 133, 69, 249, 2, 127, 80, 60, 159, 168,
    81, 163, 64, 143, 146, 157, 56, 245, 188, 182, 218, 33, 16, 255, 243, 210,
    205, 12, 19, 236, 95, 151, 68, 23, 196, 167, 126, 61, 100, 93, 25, 115,
    96, 129, 79, 220, 34, 42, 144, 136, 70, 238, 184, 20, 222, 94, 11, 219,
    224, 50, 58, 10, 73, 6, 36, 92, 194, 211, 172, 98, 145, 149, 228, 121,
    231, 200, 55, 109, 141, 213, 78, 169, 108, 86, 244, 234, 101, 122, 174, 8,
    186, 120, 37, 46, 28, 166, 180, 198, 232, 221, 116, 31, 75, 189, 139, 138,
    112, 62, 181, 102, 72, 3, 246, 14, 97, 53, 87, 185, 134, 193, 29, 158,
    225, 248, 152, 17, 105, 217, 142, 148, 155, 30, 135, 233, 206, 85, 40, 223,
    140, 161, 137, 13, 191, 230, 66, 104, 65, 153, 45, 15, 176, 84, 187, 22 >>

\* The powers of x the key schedule adds in.
Rcon == <<1, 2, 4, 8, 16, 32, 64, 128, 27, 54>>

\* The product with x and with x + 1 in GF(2^8).
XTime(a) == IF a >= 128 THEN ByteXor((2 * a) % 256, 27) ELSE 2 * a
Mul3(a) == ByteXor(XTime(a), a)

SubWord(t) == <<SBox[t[1] + 1], SBox[t[2] + 1], SBox[t[3] + 1], SBox[t[4] + 1]>>
RotWord(t) == <<t[2], t[3], t[4], t[1]>>

\* The key schedule of a key of nk words, from its first words.
RECURSIVE ExpandKey(_, _)
ExpandKey(w, nk) ==
    IF Len(w) = 4 * (nk + 7) THEN w
    ELSE LET i == Len(w)
             t == IF i % nk = 0
                  THEN BytesXor(SubWord(RotWord(w[i])), <<Rcon[i \div nk], 0, 0, 0>>)
                  ELSE IF nk > 6 /\ i % nk = 4 THEN SubWord(w[i])
                  ELSE w[i]
             n == Append(w, BytesXor(w[(i - nk) + 1], t))
         IN  IF n = n THEN ExpandKey(n, nk) ELSE w

\* aes.NewCipher: the key schedule of a key of 16, 24 or 32 bytes.
NewCipher(key) ==
    ExpandKey([i \in 1..(Len(key) \div 4) |-> SubSeq(key, (4 * i) - 3, 4 * i)] \o << >>,
              Len(key) \div 4)

\* The key of round r, from 0 on.
RoundKey(w, r) == w[(4 * r) + 1] \o w[(4 * r) + 2] \o w[(4 * r) + 3] \o w[(4 * r) + 4]

\* SubBytes and ShiftRows, and MixColumns.
SubShift(s) ==
    [i \in 1..16 |-> SBox[s[(((i - 1) + (4 * ((i - 1) % 4))) % 16) + 1] + 1]] \o << >>
MixColumns(s) ==
    [i \in 1..16 |->
        LET c == 4 * ((i - 1) \div 4)
            r == (i - 1) % 4
        IN  ByteXor(ByteXor(XTime(s[c + r + 1]), Mul3(s[c + ((r + 1) % 4) + 1])),
                    ByteXor(s[c + ((r + 2) % 4) + 1], s[c + ((r + 3) % 4) + 1]))]
        \o << >>

\* The rounds from round r on; the last one, (Len(w) \div 4) - 1, mixes no
\* columns.
RECURSIVE EncryptRounds(_, _, _)
EncryptRounds(s, w, r) ==
    IF r = (Len(w) \div 4) - 1 THEN BytesXor(SubShift(s), RoundKey(w, r))
    ELSE LET n == BytesXor(MixColumns(SubShift(s)), RoundKey(w, r))
         IN  IF n = n THEN EncryptRounds(n, w, r + 1) ELSE s

\* cipher.Block.Encrypt
EncryptBlock(w, block) == EncryptRounds(BytesXor(block, RoundKey(w, 0)), w, 1)

\* ---------------------------------------------------------------------- GCM
\* crypto/cipher's GCM (NIST SP 800-38D) with the standard nonce of 12 bytes
\* and tag of 16 bytes, and no additional data. An element of GF(2^128) is
\* the sequence of the 8 numbers of 16 bits of its block.
ZeroBlock == <<0, 0, 0, 0, 0, 0, 0, 0, 0, 0, 0, 0, 0, 0, 0, 0>>
ZeroField == <<0, 0, 0, 0, 0, 0, 0, 0>>
FieldOfBlock(b) == [i \in 1..8 |-> (256 * b[(2 * i) - 1]) + b[2 * i]] \o << >>
BlockOfField(f) ==
    [i \in 1..16 |-> IF i % 2 = 1 THEN f[(i + 1) \div 2] \div 256
                     ELSE f[i \div 2] % 256] \o << >>
FieldXor(f, g) == [i \in 1..8 |-> BitXor(f[i], g[i])] \o << >>

\* The product with x: a shift to the right, reduced by R = 11100001 || 0^120.
FieldMulX(f) ==
    LET s == [i \in 1..8 |->
                 (f[i] \div 2) + (IF i > 1 THEN 32768 * (f[i - 1] % 2) ELSE 0)] \o << >>
    IN  IF f[8] % 2 = 1 THEN [s EXCEPT ![1] = BitXor(s[1], 57600)] ELSE s

\* The product of x and y bit by bit: zv = <<Z, V>> at bit k of the number
\* word, and at number i of x.
RECURSIVE MulBits(_, _, _)
MulBits(zv, word, k) ==
    IF k < 0 THEN zv
    ELSE LET n == <<IF (word \div (2 ^ k)) % 2 = 1 THEN FieldXor(zv[1], zv[2]) ELSE zv[1],
                    FieldMulX(zv[2])>>
         IN  IF n = n THEN MulBits(n, word, k - 1) ELSE zv
RECURSIVE MulWords(_, _, _)
MulWords(zv, x, i) ==
    IF i > 8 THEN zv[1]
    ELSE LET n == MulBits(zv, x[i], 15)
         IN  IF n = n THEN MulWords(n, x, i + 1) ELSE zv[1]
FieldMul(x, y) == MulWords(<<ZeroField, y>>, x, 1)

\* GHASH of the blocks of data, whose length is a multiple of 16, from y.
RECURSIVE Ghash(_, _, _)
Ghash(h, y, data) ==
    IF Len(data) = 0 THEN y
    ELSE LET n == FieldMul(FieldXor(y, FieldOfBlock(SubSeq(data, 1, 16))), h)
         IN  IF n = n THEN Ghash(h, n, SubSeq(data, 17, Len(data))) ELSE y

\* The counter mode from counter c on: the blocks E(nonce || c), c + 1, ...
\* added to data.
RECURSIVE CounterMode(_, _, _, _)
CounterMode(w, nonce, data, c) ==
    IF Len(data) = 0 THEN << >>
    ELSE LET m == IF Len(data) < 16 THEN Len(data) ELSE 16
             n == BytesXor(SubSeq(data, 1, m),
                           SubSeq(EncryptBlock(w, nonce \o BigEndian32(c)), 1, m))
         IN  IF n = n THEN n \o CounterMode(w, nonce, SubSeq(data, m + 1, Len(data)), c + 1)
             ELSE << >>

\* The tag of a ciphertext: GHASH under H = E(0) of the ciphertext filled to
\* whole blocks and of the two lengths in bits, added to E(nonce || 1).
GcmTag(w, nonce, ct) ==
    LET h == FieldOfBlock(EncryptBlock(w, ZeroBlock))
        fill == [i \in 1..((16 - (Len(ct) % 16)) % 16) |-> 0]
        lens == <<0, 0, 0, 0, 0, 0, 0, 0, 0, 0, 0, 0>> \o BigEndian32(8 * Len(ct))
    IN  BytesXor(BlockOfField(Ghash(h, ZeroField, ct \o fill \o lens)),
                 EncryptBlock(w, nonce \o BigEndian32(1)))

\* gcm.Seal(nonce, nonce, plaintext, nil): the nonce, the ciphertext, the tag.
AesGcmSeal(key, nonce, plaintext) ==
    LET w  == NewCipher(key)
        ct == CounterMode(w, nonce, plaintext, 2)
    IN  nonce \o ct \o GcmTag(w, nonce, ct)

\* gcm.Open(nil, nonce, ciphertext, nil): [ok, plaintext]
AesGcmOpen(key, nonce, data) ==
    IF Len(data) < TagSize THEN [ok |-> FALSE, plaintext |-> << >>]
    ELSE LET w  == NewCipher(key)
             n  == Len(data) - TagSize
             ct == SubSeq(data, 1, n)
         IN  IF SubSeq(data, n + 1, Len(data)) # GcmTag(w, nonce, ct)
             THEN [ok |-> FALSE, plaintext |-> << >>]
             ELSE [ok |-> TRUE, plaintext |-> CounterMode(w, nonce, ct, 2)]

\* Keys a service is built with: two of 32 bytes with the same bytes in
\* another order, and keys of 16, 31, 33 and 0 bytes; plaintexts; nonces.
AesKeys == {[i \in 1..32 |-> i] \o << >>, [i \in 1..32 |-> 33 - i] \o << >>}
ServiceKeys ==
    AesKeys \cup {[i \in 1..16 |-> i] \o << >>, [i \in 1..31 |-> i] \o << >>,
                  [i \in 1..33 |-> i] \o << >>, << >>}
Plaintexts == {<< >>, <<115, 49>>, <<115, 50>>}
ByteNonces == {[i \in 1..NonceSize |-> i] \o << >>,
               [i \in 1..NonceSize |-> 255 - i] \o << >>}

\* What gcm.Seal gives for the keys, nonces and plaintexts of the model.
SealTable ==
    {<<k, n, p, AesGcmSeal(k, n, p)>> : k \in AesKeys, n \in ByteNonces, p \in Plaintexts}

\* gcm.Seal, read from the table where the table has it.
gcmSeal(table, key, nonce, plaintext) ==
    IF \E r \in table : r[1] = key /\ r[2] = nonce /\ r[3] = plaintext
    THEN (CHOOSE r \in table : r[1] = key /\ r[2] = nonce /\ r[3] = plaintext)[4]
    ELSE AesGcmSeal(key, nonce, plaintext)

\* The bytes handed to Decrypt under their base64 form: everything a service
\* of the model seals; the sealed "s1" of the first key and nonce with its
\* two bytes of ciphertext exchanged, with the second byte of its nonce
\* changed, and with its ciphertext replaced by that of "s2" (sealed under
\* the same key and nonce); and a nonce with a tag that is none.
SwapCiphertext(d) ==
    [i \in 1..Len(d) |-> IF i = NonceSize + 1 THEN d[NonceSize + 2]
                         ELSE IF i = NonceSize + 2 THEN d[NonceSize + 1]
                         ELSE d[i]] \o << >>
ChangeNonce(d) ==
    [i \in 1..Len(d) |-> IF i = 2 THEN (d[i] + 1) % 256 ELSE d[i]] \o << >>
ReplaceCiphertext(d, other) ==
    SubSeq(d, 1, NonceSize) \o SubSeq(other, NonceSize + 1, Len(other) - TagSize)
        \o SubSeq(d, Len(d) - TagSize + 1, Len(d))
SealedOf(table, plaintext) ==
    {r[4] : r \in {x \in table : /\ x[1] = [i \in 1..32 |-> i]
                                 /\ x[2] = [i \in 1..NonceSize |-> i]
                                 /\ x[3] = plaintext}}
TamperedOf(s1, s2) ==
    UNION {{SwapCiphertext(d), ChangeNonce(d)} \cup {ReplaceCiphertext(d, o) : o \in s2} :
              d \in s1}
BlobBytesOf(table) ==
    {r[4] : r \in table}
    \cup TamperedOf(SealedOf(table, <<115, 49>>), SealedOf(table, <<115, 50>>))
    \cup {[i \in 1..(NonceSize + TagSize) |-> i] \o << >>}
BlobBytes == BlobBytesOf(SealTable)

\* What gcm.Open gives for the keys and the bytes of the model.
OpenTable ==
    {<<k, d, AesGcmOpen(k, SubSeq(d, 1, NonceSize), SubSeq(d, NonceSize + 1, Len(d)))>> :
        k \in AesKeys, d \in BlobBytes}

\* gcm.Open, read from the table where the table has it.
gcmOpen(table, key, nonce, data) ==
    IF \E r \in table : r[1] = key /\ r[2] = nonce \o data
    THEN (CHOOSE r \in table : r[1] = key /\ r[2] = nonce \o data)[3]
    ELSE AesGcmOpen(key, nonce, data)

\* part_014:130-133: the key lengths NewService accepts.
KeyLengthsOfAES == {16, 24, 32}
KeyLengths == {32}

\* encryption.NewService (part_014:127-138): [ok, key]
NewService(key) ==
    IF Len(key) \notin KeyLengths THEN [ok |-> FALSE, key |-> << >>]
    ELSE [ok |-> TRUE, key |-> key]

\* Service.Encrypt (part_014:141-159) with the nonce crypto/rand gives.
ServiceEncrypt(key, plaintext, nonce) == Base64Encode(gcmSeal(SealTable, key, nonce, plaintext))

\* Service.Decrypt (part_014:162-190): [ok, plaintext]
ServiceDecrypt(key, ciphertext) ==
    LET data == Base64Decode(ciphertext)
    IN  IF ~data.ok THEN [ok |-> FALSE, plaintext |-> << >>]
        ELSE IF Len(data.bytes) < NonceSize THEN [ok |-> FALSE, plaintext |-> << >>]
        ELSE gcmOpen(OpenTable, key, SubSeq(data.bytes, 1, NonceSize),
                     SubSeq(data.bytes, NonceSize + 1, Len(data.bytes)))

\* The key of the encryption service of the process (main hands NewService
\* the value of ENCRYPTION_KEY) and the nonce crypto/rand gives it when the
\* secret of a tenant is sealed.
EncryptionKey == [i \in 1..32 |-> i] \o << >>
Nonces == {[i \in 1..NonceSize |-> i] \o << >>}

\* encryptionSvc.Encrypt and encryptionSvc.Decrypt (shopify_service.go:67) of
\* that service.
Encrypt(plaintext, nonce) == ServiceEncrypt(EncryptionKey, plaintext, nonce)
Decrypt(blob) == ServiceDecrypt(EncryptionKey, blob)

\* The strings handed to Decrypt: the base64 form of those bytes, of bytes
\* fewer than a nonce, and a string that is not base64.
Blobs ==
    {Base64Encode(d) : d \in BlobBytes} \cup {Base64Encode(<<1, 2, 3>>), <<"!">>}

\* The encryption service of the process, its last Encrypt and its last
\* Decrypt.
NoEnc == [built |-> FALSE, ok |-> FALSE, key |-> << >>,
          sealed |-> [done |-> FALSE, plaintext |-> << >>, blob |-> << >>],
          opened |-> [done |-> FALSE, blob |-> << >>, ok |-> FALSE,
                      plaintext |-> << >>]]

\* ------------------------------------------------------------ OAuth callback
\* The goroutines serving callback requests.
CProcs == 1..2

\* The state values of the sessions, the shops and the codes of the requests;
\* Query().Get answers the empty string for a parameter the request lacks.
OAuthStates == {"st1", "st2"}
OAuthShops == {"s1", "s2"}
OAuthCodes == {"c1"}

\* http.StatusFound, the redirect of oauthInitHandler.
StatusFound == 302

\* The life of a session (part_016:187, ten minutes), in ticks of the clock
\* of the sessions, and where that clock stops.
SessionTTL == 1
MaxSessionTime == 2

\* The most callbacks that get as far as the deletion of their session.
MaxCallbacks == 2

\* SessionRepository.GetSession found no document (session == nil).
NoSession == [found |-> FALSE, Shop |-> "", ExpiresAt |-> 0]

\* A goroutine serving no callback.
IdleCb == [pc |-> "idle", shop |-> "", code |-> "", state |-> "",
           session |-> NoSession, status |-> 0]

\* No request to /auth has been answered.
NoAuthResp == [status |-> 0, state |-> ""]

\* session_repository.go:81
ErrCleanupFailed == "failed to cleanup expired sessions"

\* session_repository.go:46-58: GetSession on the collection coll; the
\* document whose state is the given one, or nil.
GetSession(coll, state) ==
    IF state \in DOMAIN coll /\ coll[state].found THEN coll[state] ELSE NoSession

\* session_repository.go:61-70: DeleteSession on the collection coll, when
\* DeleteOne succeeds.
DeleteSession(coll, state) ==
    [s \in DOMAIN coll |-> IF s = state THEN NoSession ELSE coll[s]]

\* session_repository.go:73-84: CleanupExpiredSessions on the collection coll
\* at time t: the sessions with expires_at < t go.
CleanupExpired(coll, t) ==
    [s \in DOMAIN coll |->
        IF coll[s].found /\ coll[s].ExpiresAt < t THEN NoSession ELSE coll[s]]

\* part_016:224-251: the status oauthCallbackHandler answers with before it
\* deletes the session, 0 when it goes on.  hmacValid: VerifyHMAC accepts the
\* query; getErr: GetSession fails.
callbackStatus(hmacValid, shop, code, state, getErr, session) ==
    IF ~hmacValid THEN StatusUnauthorized
    ELSE IF shop = "" \/ code = "" \/ state = "" THEN StatusBadRequest
    ELSE IF getErr THEN StatusInternalServerError
    ELSE IF ~session.found \/ session.Shop # shop THEN StatusUnauthorized
    ELSE 0

\* part_016:167-208: the status oauthInitHandler answers with.  randErr:
\* rand.Read fails; createErr: CreateSession fails.
initStatus(shop, randErr, createErr) ==
    IF shop = "" THEN StatusBadRequest
    ELSE IF randErr THEN StatusInternalServerError
    ELSE IF createErr THEN StatusInternalServerError
    ELSE StatusFound

\* ------------------------------------------------------------ response cache
\* The goroutines calling the cache.
GProcs == 1..2

\* The keys of the callers; the empty string is a key as any other string.
CacheKeys == {"", "k1", "k2"}
CacheValues == {"v1", "v2"}

\* The maxSize and the defaultTTL the cache is built with (part_013:29-35),
\* and the ttl arguments of Set; time in ticks of the clock.
CacheMaxSize == 2
CacheDefaultTTL == 2
CacheTTLs == {0, 1}

\* The clock stops here.
MaxCacheTime == 3

ClockTicks == 1..MaxCacheTime

NoEntry == [exists |-> FALSE, Data |-> "", ExpiresAt |-> 0]

IdleCc == [pc |-> "idle", op |-> "none", key |-> "", data |-> "", ok |-> FALSE]

\* part_013:55: time.Now().After(entry.ExpiresAt)
Expired(entry, t) == t > entry.ExpiresAt

\* part_013:69-71 and 82: the expiry of an entry set at t with ttl.
ExpiresAt(t, ttl) == t + (IF ttl <= 0 THEN CacheDefaultTTL ELSE ttl)

CachedKeys(e) == {k \in DOMAIN e : e[k].exists}

\* part_013:117-128: the keys evictOldest may choose: the loop keeps the
\* first key met, in the order of the map's iteration, among those of the
\* least expiry.
OldestKeys(e) ==
    {k \in CachedKeys(e) :
        \A j \in CachedKeys(e) : e[j].ExpiresAt >= e[k].ExpiresAt}

\* part_013:76-86 and 130-135: the entries after Set has stored its entry.
\* When the cache was full evictOldest has deleted the key oldest it chose,
\* unless that key is the empty string, which it takes for no key at all.
AfterSet(e, oldest, key, value, ttl, t) ==
    LET room == IF Cardinality(CachedKeys(e)) >= CacheMaxSize
                THEN [k \in DOMAIN e |-> IF k = oldest /\ oldest # "" THEN NoEntry
                                         ELSE e[k]]
                ELSE e
    IN  [room EXCEPT ![key] = [exists |-> TRUE, Data |-> value,
                               ExpiresAt |-> ExpiresAt(t, ttl)]]

\* part_013:143-153: the entries after a round of cleanup at t.
AfterCleanup(e, t) ==
    [k \in DOMAIN e |-> IF e[k].exists /\ Expired(e[k], t) THEN NoEntry ELSE e[k]]

\* ------------------------------------------------------------------- state
VARIABLES
    clients,     \* ClientPool.clients : key -> client id, 0 = absent
    onceMap,     \* ClientPool.onceMap : key -> once id, 0 = absent
    mu,          \* ClientPool.mu : holder, 0 = unlocked
    onceDone,    \* sync.Once.done of every allocated once
    onceM,       \* sync.Once.m of every allocated once: holder, 0 = unlocked
    clientInfo,  \* every client construction ever begun, by client id
    config,      \* configRepo: project id -> stored ShopifyConfig
    pc,          \* position of every goroutine
    loc,         \* locals of the call a goroutine is in
    gh,          \* history of the call a goroutine is in
    invCount,    \* per key, InvalidateClient calls started so far
    staleUpTo,   \* per key, constructions begun before a finished invalidation
    nextOnce,    \* identity of the next sync.Once to be allocated
    opCount,     \* calls started so far
    buckets,     \* RateLimiter.buckets : shop domain -> rateBucket
    bhist,       \* per bucket, what has happened to it since its creation
    now,         \* time.Now(), in milliseconds
    lpc,         \* position of every goroutine calling the rate limiter
    lloc,        \* locals of the rate limiter call a goroutine is in
    advances,    \* clock advances so far
    rx,          \* the ExecuteWithRetry call in progress
    calls,       \* upstream API calls made through pool clients
    verifier,    \* the WebhookVerifier of the server: its apiSecret, or none
    vres,        \* the verification of the last call: its inputs and its error
    resp,        \* the request of the last call, if to the endpoint, and its answer
    handlers,    \* WebhookDispatcher.handlers
    dp,          \* the Dispatch call in progress
    enc,         \* the encryption service, its last Encrypt and Decrypt
    sessions,    \* the sessions collection: state -> session
    issued,      \* the state values drawn so far
    cb,          \* the callback each goroutine serves
    exchanged,   \* per state, the ExchangeToken calls of its callbacks
    authResp,    \* the answer to the last request to /auth
    cleanupErr,  \* the error of the last CleanupExpiredSessions, "" for nil
    otime,       \* the clock of the sessions
    entries,     \* ResponseCache.entries : key -> entry
    cc,          \* the cache call of each goroutine
    ctime        \* the clock of the cache

vars == <<clients, onceMap, mu, onceDone, onceM, clientInfo, config, pc, loc,
          gh, invCount, staleUpTo, nextOnce, opCount,
          buckets, bhist, now, lpc, lloc, advances, rx, calls,
          verifier, vres, resp, handlers, dp, enc,
          sessions, issued, cb, exchanged, authResp, cleanupErr, otime,
          entries, cc, ctime>>

\* The state of the OAuth flow and of the response cache.
oauthVars == <<sessions, issued, cb, exchanged, authResp, cleanupErr, otime>>
cacheVars == <<entries, cc, ctime>>

\* The state of the services beside them.
serviceVars == <<enc, oauthVars, cacheVars>>

\* The state of the webhook endpoint and of the webhook dispatcher.
webhookVars == <<verifier, vres, resp, handlers, dp>>

\* The state outside the client pool and the configuration store.
outsidePool == <<buckets, bhist, now, lpc, lloc, advances, rx, calls, webhookVars,
                 serviceVars>>

OnceIds == 1..MaxOps

NoResult == [client |-> 0, err |-> ""]

ErrCreate       == "failed to create Shopify client"
ErrGetOrCreate  == "failed to get or create client for tenant"
ErrNotConfigured == "shopify not configured"
ErrDecrypt      == "failed to decrypt API secret"
ErrRepository   == "repository error"

NoConfig == [set |-> FALSE, ProjectID |-> EmptyStr, Environment |-> EmptyStr,
             APIKey |-> "", EncryptedKey |-> EmptyStr, updateErr |-> ""]

IdleLoc == [op |-> "none", via |-> NoTenant, key |-> NoKey, apiKey |-> "",
            apiSecret |-> EmptyStr, once |-> 0, newClient |-> 0, invSnap |-> 0,
            result |-> NoResult]

IdleGh == [staleAtStart |-> 0, overlap |-> FALSE, afterFail |-> FALSE,
           cachedAtLoad |-> 0, emptyAtStart |-> FALSE]

ConfigProjects == {ProjectA, ProjectAB, EmptyStr}

Init ==
    /\ clients = [k \in PoolKeys |-> 0]
    /\ onceMap = [k \in PoolKeys |-> 0]
    /\ mu = 0
    /\ onceDone = [o \in OnceIds |-> FALSE]
    /\ onceM = [o \in OnceIds |-> 0]
    /\ clientInfo = << >>
    /\ config = [p \in ConfigProjects |->
                   IF p = EmptyStr THEN NoConfig
                   ELSE [set |-> TRUE, ProjectID |-> p,
                         Environment |-> DefaultEnvironment, APIKey |-> "k1",
                         EncryptedKey |-> Encrypt(Secret1, CHOOSE n \in Nonces : TRUE),
                         updateErr |-> ""]]
    /\ pc = [p \in Procs |-> "idle"]
    /\ loc = [p \in Procs |-> IdleLoc]
    /\ gh = [p \in Procs |-> IdleGh]
    /\ invCount = [k \in PoolKeys |-> 0]
    /\ staleUpTo = [k \in PoolKeys |-> 0]
    /\ nextOnce = 1
    /\ opCount = 0
    /\ buckets = [s \in Shops |-> NoBucket]
    /\ bhist = [s \in Shops |-> NoBHist]
    /\ now = 0
    /\ lpc = [p \in LProcs |-> "idle"]
    /\ lloc = [p \in LProcs |-> IdleLLoc]
    /\ advances = 0
    /\ rx = IdleRx
    /\ calls = << >>
    /\ verifier = NoVerifier
    /\ vres = NoVres
    /\ resp = NoResp
    /\ handlers = << >>
    /\ dp = IdleDp
    /\ enc = NoEnc
    /\ sessions = [s \in OAuthStates |-> NoSession]
    /\ issued = {}
    /\ cb = [p \in CProcs |-> IdleCb]
    /\ exchanged = [s \in OAuthStates |-> 0]
    /\ authResp = NoAuthResp
    /\ cleanupErr = ""
    /\ otime = 0
    /\ entries = [k \in CacheKeys |-> NoEntry]
    /\ cc = [p \in GProcs |-> IdleCc]
    /\ ctime = 0

\* ------------------------------------------------------- sync primitives
\* sync.Map.Load on ClientPool.clients, with the type assertion of
\* pool.go:40-41: the cached client, 0 when there is none.
LoadClient(tenantID) == clients[tenantID]

\* A fast path that would serve the cache only to the credentials the
\* cached client was built with.
FastPathHitSameCreds(tenantID, apiKey, apiSecret) ==
    /\ LoadClient(tenantID) # 0
    /\ clientInfo[LoadClient(tenantID)].apiKey = apiKey
    /\ clientInfo[LoadClient(tenantID)].apiSecret = apiSecret

\* The fast path of GetClient (pool.go:40-44): a cached client is returned
\* whatever credentials were passed.
FastPathHit(tenantID, apiKey, apiSecret) == LoadClient(tenantID) # 0

\* A plain Store in place of LoadOrStore: every caller registers its own
\* once.
OnceStoreFresh(tenantID) == nextOnce

\* sync.Map.LoadOrStore on ClientPool.onceMap (pool.go:47): the once now
\* registered for the key; a new once is stored only when none is there.
OnceLoadOrStore(tenantID) ==
    IF onceMap[tenantID] # 0 THEN onceMap[tenantID] ELSE nextOnce

\* sync.Once.Do, the check of done: a finished once runs nothing.
OnceIsDone(o) == onceDone[o]

\* sync.Once.Do, the slow path: the once's mutex must be free to go on.
OnceCanLock(o) == onceM[o] = 0

\* A failure path that would leave the finished once registered.
FailCleanupKeepsOnce(tenantID) == onceMap

\* ClientPool.onceMap after the cleanup of a failed construction
\* (pool.go:68).
FailCleanupOnceMap(tenantID) == [onceMap EXCEPT ![tenantID] = 0]

\* ClientPool.clients after the Store of pool.go:73.
StoreClient(tenantID, c) == [clients EXCEPT ![tenantID] = c]

\* An invalidation that would empty the whole cache.
InvalidatedAllClients(tenantID) == [k \in DOMAIN clients |-> 0]

\* The delete of the client in InvalidateClient (pool.go:104).
InvalidatedClients(tenantID) == [clients EXCEPT ![tenantID] = 0]

\* An invalidation that would forget the once.
InvalidatedOnceMapKept(tenantID) == onceMap

\* The delete of the once in InvalidateClient (pool.go:105).
InvalidatedOnceMap(tenantID) == [onceMap EXCEPT ![tenantID] = 0]

\* NewClientWithOptions: TRUE when it returns a client, FALSE when it
\* returns nil.  Credentials must be non-empty.
NewClientWithOptions(apiKey, apiSecret) == apiKey # "" /\ apiSecret # EmptyStr

\* pool.go:81-95: what GetClient returns after once.Do, from its locals
\* client and err.
GetClientResult(tenantID, client, err) ==
    IF err # ""
    THEN [client |-> 0, err |-> err]
    ELSE IF client = 0
         THEN IF LoadClient(tenantID) # 0
              THEN [client |-> LoadClient(tenantID), err |-> ""]
              ELSE [client |-> 0, err |-> ErrGetOrCreate]
         ELSE [client |-> client, err |-> ""]

\* ------------------------------------------------------------- call history
\* A goroutine inside a call (its result not yet returned).
Running(g) == pc[g] \notin {"idle", "ret"}
\* The goroutine that takes the next request: goroutines are interchangeable,
\* so it is the first one that is not inside a call.
Free(g) == /\ pc[g] \in {"idle", "ret"}
           /\ \A q \in Procs : pc[q] \in {"idle", "ret"} => g <= q

\* Constructions begun for a key, by state.
Constructions(k) == {i \in 1..Len(clientInfo) : clientInfo[i].key = k}
InFlight(k) == {i \in Constructions(k) : clientInfo[i].state = "inflight"}
Failed(k)   == {i \in Constructions(k) : clientInfo[i].state = "nil"}

\* History kept when goroutine p starts a call on key k: whoever is inside
\* a call on k is marked as overlapped, p's own record starts afresh, and
\* the results already returned have been taken by their callers.
StartHistory(p, k) ==
    [g \in Procs |->
        IF g = p
        THEN [staleAtStart |-> staleUpTo[k],
              overlap      |-> \E q \in Procs \ {p} : Running(q) /\ loc[q].key = k,
              afterFail    |-> Failed(k) # {},
              cachedAtLoad |-> 0,
              emptyAtStart |-> clients[k] = 0 /\ onceMap[k] = 0]
        ELSE IF Running(g)
             THEN IF loc[g].key = k THEN [gh[g] EXCEPT !.overlap = TRUE] ELSE gh[g]
             ELSE IdleGh]

\* Positions and locals when goroutine p starts a call with locals l at
\* position at.
StartPc(p, at) == [g \in Procs |-> IF g = p THEN at ELSE IF Running(g) THEN pc[g] ELSE "idle"]
StartLoc(p, l) == [g \in Procs |-> IF g = p THEN l ELSE IF Running(g) THEN loc[g] ELSE IdleLoc]

\* ------------------------------------------------------ ClientPool.GetClient
\* pool.go:38-45: the locals and the position of a GetClient call after its
\* cache check.  via is the tenant the call is made for when it comes from
\* GetClientForTenant.
GetClientEnterLoc(via, tenantID, apiKey, apiSecret) ==
    LET l == [IdleLoc EXCEPT !.op = "GetClient", !.via = via, !.key = tenantID,
                             !.apiKey = apiKey, !.apiSecret = apiSecret]
    IN  IF FastPathHit(tenantID, apiKey, apiSecret)
        THEN [l EXCEPT !.result = [client |-> LoadClient(tenantID), err |-> ""]]
        ELSE l

GetClientEnterPc(tenantID, apiKey, apiSecret) ==
    IF FastPathHit(tenantID, apiKey, apiSecret) THEN "ret" ELSE "gc_once"

\* A goroutine calls GetClient(ctx, tenantID, apiKey, apiSecret) directly.
GetClientCall(p, tenantID, apiKey, apiSecret) ==
    /\ Free(p)
    /\ opCount < MaxOps
    /\ opCount' = opCount + 1
    /\ gh' = [StartHistory(p, tenantID) EXCEPT ![p].cachedAtLoad = clients[tenantID]]
    /\ loc' = StartLoc(p, GetClientEnterLoc(NoTenant, tenantID, apiKey, apiSecret))
    /\ pc' = StartPc(p, GetClientEnterPc(tenantID, apiKey, apiSecret))
    /\ UNCHANGED <<clients, onceMap, mu, onceDone, onceM, clientInfo, config,
                   invCount, staleUpTo, nextOnce>>
    /\ UNCHANGED outsidePool

\* The call made by GetClientForTenant (shopify_service.go:73).
GetClientLoad(p) ==
    /\ pc[p] = "gc_load"
    /\ gh' = [gh EXCEPT ![p].cachedAtLoad = clients[loc[p].key]]
    /\ loc' = [loc EXCEPT ![p] =
                  GetClientEnterLoc(loc[p].via, loc[p].key, loc[p].apiKey, loc[p].apiSecret)]
    /\ pc' = [pc EXCEPT ![p] = GetClientEnterPc(loc[p].key, loc[p].apiKey, loc[p].apiSecret)]
    /\ UNCHANGED <<clients, onceMap, mu, onceDone, onceM, clientInfo, config,
                   invCount, staleUpTo, nextOnce, opCount>>
    /\ UNCHANGED outsidePool

\* pool.go:47-48
GetClientLoadOrStore(p) ==
    /\ pc[p] = "gc_once"
    /\ LET o == OnceLoadOrStore(loc[p].key)
       IN  /\ onceMap' = [onceMap EXCEPT ![loc[p].key] = o]
           /\ loc' = [loc EXCEPT ![p].once = o]
           /\ nextOnce' = IF o = nextOnce THEN nextOnce + 1 ELSE nextOnce
    /\ pc' = [pc EXCEPT ![p] = "gc_do"]
    /\ UNCHANGED <<clients, mu, onceDone, onceM, clientInfo, config, gh,
                   invCount, staleUpTo, opCount>>
    /\ UNCHANGED outsidePool

\* pool.go:54 with a finished once: once.Do runs nothing, client and err stay
\* nil and pool.go:81-95 decide the result.
OnceDoSkip(p) ==
    /\ pc[p] = "gc_do"
    /\ OnceIsDone(loc[p].once)
    /\ loc' = [loc EXCEPT ![p].result = GetClientResult(loc[p].key, 0, "")]
    /\ pc' = [pc EXCEPT ![p] = "ret"]
    /\ UNCHANGED <<clients, onceMap, mu, onceDone, onceM, clientInfo, config,
                   gh, invCount, staleUpTo, nextOnce, opCount>>
    /\ UNCHANGED outsidePool

\* pool.go:54-64 with an unfinished once: the once's mutex is taken and the
\* function runs.  Its double check either finds a client (the once is
\* finished and GetClient returns it) or calls the constructor.
OnceDoRun(p) ==
    /\ pc[p] = "gc_do"
    /\ ~OnceIsDone(loc[p].once)
    /\ OnceCanLock(loc[p].once)
    /\ IF LoadClient(loc[p].key) # 0
       THEN /\ onceDone' = [onceDone EXCEPT ![loc[p].once] = TRUE]
            /\ loc' = [loc EXCEPT ![p].result =
                          GetClientResult(loc[p].key, LoadClient(loc[p].key), "")]
            /\ pc' = [pc EXCEPT ![p] = "ret"]
            /\ UNCHANGED <<onceM, clientInfo>>
       ELSE /\ onceM' = [onceM EXCEPT ![loc[p].once] = p]
            /\ clientInfo' = Append(clientInfo,
                                [key |-> loc[p].key, apiKey |-> loc[p].apiKey,
                                 apiSecret |-> loc[p].apiSecret, via |-> loc[p].via,
                                 once |-> loc[p].once, state |-> "inflight"])
            /\ loc' = [loc EXCEPT ![p].newClient = Len(clientInfo) + 1]
            /\ pc' = [pc EXCEPT ![p] = "gc_construct"]
            /\ UNCHANGED onceDone
    /\ UNCHANGED <<clients, onceMap, mu, config, gh, invCount, staleUpTo,
                   nextOnce, opCount>>
    /\ UNCHANGED outsidePool

\* pool.go:64-95 when the constructor returns a client: it is cached, the
\* once is finished and GetClient returns the new client.
NewClientOk(p) ==
    /\ pc[p] = "gc_construct"
    /\ NewClientWithOptions(loc[p].apiKey, loc[p].apiSecret)
    /\ clientInfo' = [clientInfo EXCEPT ![loc[p].newClient].state = "ok"]
    /\ clients' = StoreClient(loc[p].key, loc[p].newClient)
    /\ onceDone' = [onceDone EXCEPT ![loc[p].once] = TRUE]
    /\ onceM' = [onceM EXCEPT ![loc[p].once] = 0]
    /\ loc' = [loc EXCEPT ![p].result = [client |-> loc[p].newClient, err |-> ""]]
    /\ pc' = [pc EXCEPT ![p] = "ret"]
    /\ UNCHANGED <<onceMap, mu, config, gh, invCount, staleUpTo, nextOnce, opCount>>
    /\ UNCHANGED outsidePool

\* pool.go:64-83 when the constructor returns nil: err is set, the once is
\* deleted from the map and finished, and GetClient returns the error.
NewClientNil(p) ==
    /\ pc[p] = "gc_construct"
    /\ ~NewClientWithOptions(loc[p].apiKey, loc[p].apiSecret)
    /\ clientInfo' = [clientInfo EXCEPT ![loc[p].newClient].state = "nil"]
    /\ onceMap' = FailCleanupOnceMap(loc[p].key)
    /\ onceDone' = [onceDone EXCEPT ![loc[p].once] = TRUE]
    /\ onceM' = [onceM EXCEPT ![loc[p].once] = 0]
    /\ loc' = [loc EXCEPT ![p].result = GetClientResult(loc[p].key, 0, ErrCreate)]
    /\ pc' = [pc EXCEPT ![p] = "ret"]
    /\ UNCHANGED <<clients, mu, config, gh, invCount, staleUpTo, nextOnce, opCount>>
    /\ UNCHANGED outsidePool

\* --------------------------------------------- ClientPool.InvalidateClient
\* pool.go:101-104: the pool mutex is taken and the client deleted.
InvalidateClientCall(p, tenantID) ==
    /\ Free(p)
    /\ opCount < MaxOps
    /\ mu = 0
    /\ mu' = p
    /\ opCount' = opCount + 1
    /\ clients' = InvalidatedClients(tenantID)
    /\ loc' = StartLoc(p, [IdleLoc EXCEPT !.op = "InvalidateClient",
                                  !.key = tenantID, !.invSnap = Len(clientInfo)])
    /\ gh' = StartHistory(p, tenantID)
    /\ invCount' = [invCount EXCEPT ![tenantID] = @ + 1]
    /\ pc' = StartPc(p, "inv_once")
    /\ UNCHANGED <<onceMap, onceDone, onceM, clientInfo, config, staleUpTo, nextOnce>>
    /\ UNCHANGED outsidePool

\* pool.go:105-110: the once is deleted, the mutex released, the call returns.
InvalidateClientFinish(p) ==
    /\ pc[p] = "inv_once"
    /\ onceMap' = InvalidatedOnceMap(loc[p].key)
    /\ mu' = 0
    /\ staleUpTo' = [staleUpTo EXCEPT ![loc[p].key] =
                        IF loc[p].invSnap > @ THEN loc[p].invSnap ELSE @]
    /\ pc' = [pc EXCEPT ![p] = "ret"]
    /\ UNCHANGED <<clients, onceDone, onceM, clientInfo, config, loc, gh,
                   invCount, nextOnce, opCount>>
    /\ UNCHANGED outsidePool

\* ------------------------------------- ShopifyService.GetClientForTenant
\* shopify_service.go:46-73: the key and the credentials are resolved from
\* the stored configuration; GetClient is the next step.  repoErr:
\* configRepo.GetByTenantID fails.
GetClientForTenant(p, ctxProject, ctxEnv, tenantID, repoErr) ==
    /\ Free(p)
    /\ opCount < MaxOps
    /\ opCount' = opCount + 1
    /\ LET projectID   == ResolveProjectID(ctxProject, tenantID)
           environment == ResolveEnvironment(ctxEnv)
           cfg         == config[projectID]
           secret      == Decrypt(cfg.EncryptedKey)
           key         == TenantKey(projectID, environment)
       IN  IF repoErr
           THEN /\ loc' = StartLoc(p, [IdleLoc EXCEPT !.op = "GetClientForTenant",
                                  !.result = [client |-> 0, err |-> ErrRepository]])
                /\ pc' = StartPc(p, "ret")
                /\ gh' = [g \in Procs |-> IF Running(g) THEN gh[g] ELSE IdleGh]
           ELSE IF ~cfg.set
           THEN /\ loc' = StartLoc(p, [IdleLoc EXCEPT !.op = "GetClientForTenant",
                                  !.result = [client |-> 0, err |-> ErrNotConfigured]])
                /\ pc' = StartPc(p, "ret")
                /\ gh' = [g \in Procs |-> IF Running(g) THEN gh[g] ELSE IdleGh]
           ELSE IF ~secret.ok
           THEN /\ loc' = StartLoc(p, [IdleLoc EXCEPT !.op = "GetClientForTenant",
                                  !.result = [client |-> 0, err |-> ErrDecrypt]])
                /\ pc' = StartPc(p, "ret")
                /\ gh' = [g \in Procs |-> IF Running(g) THEN gh[g] ELSE IdleGh]
           ELSE /\ key \in PoolKeys
                /\ loc' = StartLoc(p, [IdleLoc EXCEPT !.op = "GetClient",
                                  !.via = <<projectID, environment>>, !.key = key,
                                  !.apiKey = cfg.APIKey, !.apiSecret = secret.plaintext])
                /\ pc' = StartPc(p, "gc_load")
                /\ gh' = StartHistory(p, key)
    /\ UNCHANGED <<clients, onceMap, mu, onceDone, onceM, clientInfo, config,
                   invCount, staleUpTo, nextOnce>>
    /\ UNCHANGED outsidePool

\* ---------------------------------------------------- ShopifyConfig.Update
\* credentials.go:75-88 applied to a stored configuration: non-empty
\* arguments overwrite, empty ones keep the field.
ConfigUpdate(c, encryptedKey, apiKey) ==
    [c EXCEPT !.EncryptedKey = IF encryptedKey # EmptyStr THEN encryptedKey ELSE @,
              !.APIKey       = IF apiKey # "" THEN apiKey ELSE @]

\* credentials.go:58-72: the error of Validate, "" for nil.
ConfigValidate(c) ==
    IF c.ProjectID = EmptyStr THEN "projectID cannot be empty"
    ELSE IF c.Environment = EmptyStr THEN "environment cannot be empty"
    ELSE IF c.EncryptedKey = EmptyStr THEN "encryptedKey cannot be empty"
    ELSE IF c.APIKey = "" THEN "apiKey cannot be empty"
    ELSE ""

\* ShopifyConfig.Update on the configuration of a project (credentials.go:
\* 75-90): the fields are overwritten first and the error of Validate is
\* returned after. The repository of configurations
\* (ports.ShopifyConfigRepository) has no implementation in src: the
\* configuration Update has changed is the one GetByTenantID answers next.
UpdateConfig(projectID, encryptedKey, apiKey) ==
    /\ opCount < MaxOps
    /\ opCount' = opCount + 1
    /\ config[projectID].set
    /\ LET c == ConfigUpdate(config[projectID], encryptedKey, apiKey)
       IN  /\ c # config[projectID]
           /\ config' = [config EXCEPT ![projectID] =
                             [c EXCEPT !.updateErr = ConfigValidate(c)]]
    /\ UNCHANGED <<clients, onceMap, mu, onceDone, onceM, clientInfo, pc, loc,
                   gh, invCount, staleUpTo, nextOnce>>
    /\ UNCHANGED outsidePool

\* Arguments (tenantID, apiKey, apiSecret) passed to the pool by direct
\* callers: on each key a good pair of credentials, and an empty key on one
\* key, an empty secret on the other.
DirectInputs ==
    {<<TenantKey(ProjectA, EnvC),  "k1", Secret1>>,
     <<TenantKey(ProjectA, EnvC),  "",   Secret1>>,
     <<TenantKey(ProjectA, EnvBC), "k1", Secret1>>,
     <<TenantKey(ProjectA, EnvBC), "k1", EmptyStr>>}

\* The pool under direct callers.
Next ==
    \/ \E p \in Procs, d \in DirectInputs : GetClientCall(p, d[1], d[2], d[3])
    \/ \E p \in Procs : GetClientLoadOrStore(p)
    \/ \E p \in Procs : OnceDoSkip(p)
    \/ \E p \in Procs : OnceDoRun(p)
    \/ \E p \in Procs : NewClientOk(p)
    \/ \E p \in Procs : NewClientNil(p)
    \/ \E p \in Procs, k \in PoolKeys : InvalidateClientCall(p, k)
    \/ \E p \in Procs : InvalidateClientFinish(p)

Spec == Init /\ [][Next]_vars

\* The pool behind ShopifyService, with tenants whose credentials are
\* reconfigured.
TenantNext ==
    \/ \E p \in Procs, t \in Tenants, re \in BOOLEAN :
          GetClientForTenant(p, t[1], t[2], EmptyStr, re)
    \/ \E p \in Procs : GetClientForTenant(p, EmptyStr, EnvC, ProjectA, FALSE)
    \/ \E p \in Procs : GetClientForTenant(p, EmptyStr, EnvC, EmptyStr, FALSE)
    \/ \E p \in Procs : GetClientLoad(p)
    \/ \E p \in Procs : GetClientLoadOrStore(p)
    \/ \E p \in Procs : OnceDoSkip(p)
    \/ \E p \in Procs : OnceDoRun(p)
    \/ \E p \in Procs : NewClientOk(p)
    \/ \E n \in Nonces : UpdateConfig(ProjectA, Encrypt(Secret2, n), "k2")
    \/ \E n \in Nonces : UpdateConfig(ProjectAB, EmptyStr, "k2")

TenantSpec == Init /\ [][TenantNext]_vars

\* ============================================================ rate limiter
\* A goroutine inside a rate limiter call, and the one that takes the next
\* call.
LRunning(g) == lpc[g] \notin {"idle", "ret"}
LFree(g) == /\ lpc[g] \in {"idle", "ret"}
            /\ \A q \in LProcs : lpc[q] \in {"idle", "ret"} => g <= q

\* Positions and locals after a step that takes goroutine p to position at
\* with locals l; the results already returned have been taken by their
\* callers.
LStartPc(p, at) == [g \in LProcs |-> IF g = p THEN at ELSE IF LRunning(g) THEN lpc[g] ELSE "idle"]
LStartLoc(p, l) == [g \in LProcs |-> IF g = p THEN l ELSE IF LRunning(g) THEN lloc[g] ELSE IdleLLoc]

\* Where a call waits for the mutex of its bucket.
BucketPc(op) ==
    CASE op = "Wait" -> "w_lock"
      [] op = "UpdateFromResponse" -> "u_lock"
      [] op = "GetRemainingTokens" -> "g_lock"

\* rate_limiter.go:92-112 for a call with locals l: with the bucket's mutex
\* taken the bucket is refilled; a token is consumed and the call returns, or
\* the timer is set and the call sleeps with the mutex held.
WaitBody(p, l) ==
    LET s  == l.shop
        rb == refill(buckets[s], now)
    IN  IF rb.tokens > 0
        THEN /\ buckets' = [buckets EXCEPT ![s] = ConsumeToken(rb)]
             /\ bhist' = [bhist EXCEPT ![s].idle = FALSE,
                                       ![s].okNoSleep = IF bhist[s].fresh THEN @ + 1 ELSE @]
             /\ lloc' = LStartLoc(p, [l EXCEPT !.err = ""])
             /\ lpc' = LStartPc(p, "ret")
        ELSE /\ \E wt \in WaitTimes(rb.refillRate) :
                    lloc' = LStartLoc(p, [l EXCEPT !.timer = [fires |-> wt.fires,
                                                              at |-> now + wt.ms]])
             /\ buckets' = [buckets EXCEPT ![s] = [rb EXCEPT !.mu = p]]
             /\ bhist' = [bhist EXCEPT ![s].slept = TRUE]
             /\ lpc' = LStartPc(p, "w_sleep")

\* rate_limiter.go:145-166 for a call with locals l: updateFromHeaders under
\* the bucket's mutex.
UpdateBody(p, l) ==
    LET s  == l.shop
        rb == updateFromHeaders(buckets[s], l.header, now)
    IN  /\ buckets' = [buckets EXCEPT ![s] = rb]
        /\ bhist' = [bhist EXCEPT ![s].fresh = FALSE, ![s].okNoSleep = 0,
                                  ![s].slept = FALSE, ![s].idle = FALSE]
        /\ lloc' = LStartLoc(p, l)
        /\ lpc' = LStartPc(p, "ret")

\* rate_limiter.go:171-174 for a call with locals l: GetRemainingTokens
\* under the bucket's mutex.
GetRemainingBody(p, l) ==
    LET s  == l.shop
        rb == refill(buckets[s], now)
    IN  /\ buckets' = [buckets EXCEPT ![s] = rb]
        /\ lloc' = LStartLoc(p, [l EXCEPT !.tokens = rb.tokens])
        /\ lpc' = LStartPc(p, "ret")
        /\ UNCHANGED bhist

\* The start of a call: getBucket's lookup under the read lock of the map
\* (rate_limiter.go:61-67), which is released before anything else is done.
\* The call goes on to the mutex of the bucket it found, or to the write lock
\* of the map when it found none.  ctxDone: the context of the call is
\* already cancelled.
LimiterCall(p, op, shopDomain, limitHeader, ctxDone) ==
    /\ LFree(p)
    /\ LET l == [IdleLLoc EXCEPT !.op = op, !.shop = shopDomain, !.header = limitHeader,
                                 !.ctxDone = ctxDone]
       IN  /\ lloc' = LStartLoc(p, l)
           /\ lpc' = LStartPc(p, IF buckets[shopDomain].exists THEN BucketPc(op)
                                 ELSE "gb_create")
    /\ UNCHANGED <<buckets, bhist, now, advances>>
    /\ UNCHANGED <<clients, onceMap, mu, onceDone, onceM, clientInfo, config, pc,
                   loc, gh, invCount, staleUpTo, nextOnce, opCount, rx, calls>>
    /\ UNCHANGED <<webhookVars, serviceVars>>

\* RateLimiter.Wait(ctx, shopDomain)
Wait(p, ctxDone, shopDomain) == LimiterCall(p, "Wait", shopDomain, HdrMissing, ctxDone)

\* RateLimiter.UpdateFromResponse(shopDomain, resp)
UpdateFromResponse(p, shopDomain, limitHeader) ==
    LimiterCall(p, "UpdateFromResponse", shopDomain, limitHeader, FALSE)

\* RateLimiter.GetRemainingTokens(shopDomain)
GetRemainingTokens(p, shopDomain) ==
    LimiterCall(p, "GetRemainingTokens", shopDomain, HdrMissing, FALSE)

\* rate_limiter.go:73-75: the second lookup of getBucket, under the write
\* lock of the map; without it the bucket would be created again.
DoubleCheckSkipped(b) == FALSE

DoubleCheck(b) == b.exists

\* rate_limiter.go:69-87: getBucket under the write lock; the bucket is
\* created unless another goroutine has created it meanwhile.
GetBucketCreate(p) ==
    /\ lpc[p] = "gb_create"
    /\ LET s == lloc[p].shop
       IN  IF DoubleCheck(buckets[s])
           THEN UNCHANGED <<buckets, bhist>>
           ELSE /\ buckets' = [buckets EXCEPT ![s] = NewBucket(now)]
                /\ bhist' = [bhist EXCEPT ![s] =
                                [fresh |-> TRUE, okNoSleep |-> 0, slept |-> FALSE,
                                 idle |-> FALSE, created |-> bhist[s].created + 1]]
    /\ lpc' = LStartPc(p, BucketPc(lloc[p].op))
    /\ lloc' = LStartLoc(p, lloc[p])
    /\ UNCHANGED <<now, advances>>
    /\ UNCHANGED <<clients, onceMap, mu, onceDone, onceM, clientInfo, config, pc,
                   loc, gh, invCount, staleUpTo, nextOnce, opCount, rx, calls>>
    /\ UNCHANGED <<webhookVars, serviceVars>>

\* rateBucket.wait once the mutex of the bucket is free (rate_limiter.go:
\* 92-112); whether the context is done is not looked at here.
WaitLock(p) ==
    /\ lpc[p] = "w_lock"
    /\ buckets[lloc[p].shop].mu = 0
    /\ WaitBody(p, lloc[p])
    /\ UNCHANGED <<now, advances>>
    /\ UNCHANGED <<clients, onceMap, mu, onceDone, onceM, clientInfo, config, pc,
                   loc, gh, invCount, staleUpTo, nextOnce, opCount, rx, calls>>
    /\ UNCHANGED <<webhookVars, serviceVars>>

\* rate_limiter.go:117-124: the timer fires; after a second refill the call
\* consumes a token or gives up, and the mutex is released.
WaitTimer(p) ==
    /\ lpc[p] = "w_sleep"
    /\ lloc[p].timer.fires
    /\ now >= lloc[p].timer.at
    /\ LET s  == lloc[p].shop
           rb == refill(buckets[s], now)
       IN  IF rb.tokens > 0
           THEN /\ buckets' = [buckets EXCEPT ![s] = [ConsumeToken(rb) EXCEPT !.mu = 0]]
                /\ bhist' = [bhist EXCEPT ![s].idle = FALSE]
                /\ lloc' = LStartLoc(p, [lloc[p] EXCEPT !.timer = NoTimer, !.err = ""])
           ELSE /\ buckets' = [buckets EXCEPT ![s] = [rb EXCEPT !.mu = 0]]
                /\ lloc' = LStartLoc(p, [lloc[p] EXCEPT !.timer = NoTimer,
                                                        !.err = ErrRateLimit])
                /\ UNCHANGED bhist
    /\ lpc' = LStartPc(p, "ret")
    /\ UNCHANGED <<now, advances>>
    /\ UNCHANGED <<clients, onceMap, mu, onceDone, onceM, clientInfo, config, pc,
                   loc, gh, invCount, staleUpTo, nextOnce, opCount, rx, calls>>
    /\ UNCHANGED <<webhookVars, serviceVars>>

\* rate_limiter.go:115-116: the context is done while the call sleeps; the
\* call returns ctx.Err() and the mutex is released.
WaitCancelled(p) ==
    /\ lpc[p] = "w_sleep"
    /\ lloc[p].ctxDone
    /\ buckets' = [buckets EXCEPT ![lloc[p].shop].mu = 0]
    /\ lloc' = LStartLoc(p, [lloc[p] EXCEPT !.timer = NoTimer, !.err = ErrCanceled])
    /\ lpc' = LStartPc(p, "ret")
    /\ UNCHANGED <<bhist, now, advances>>
    /\ UNCHANGED <<clients, onceMap, mu, onceDone, onceM, clientInfo, config, pc,
                   loc, gh, invCount, staleUpTo, nextOnce, opCount, rx, calls>>
    /\ UNCHANGED <<webhookVars, serviceVars>>

\* The caller of a Wait in progress cancels its context.
CancelCtx(p) ==
    /\ LRunning(p)
    /\ lloc[p].op = "Wait"
    /\ ~lloc[p].ctxDone
    /\ lloc' = LStartLoc(p, [lloc[p] EXCEPT !.ctxDone = TRUE])
    /\ lpc' = LStartPc(p, lpc[p])
    /\ UNCHANGED <<buckets, bhist, now, advances>>
    /\ UNCHANGED <<clients, onceMap, mu, onceDone, onceM, clientInfo, config, pc,
                   loc, gh, invCount, staleUpTo, nextOnce, opCount, rx, calls>>
    /\ UNCHANGED <<webhookVars, serviceVars>>

\* rateBucket.updateFromHeaders once the mutex of the bucket is free.
UpdateLock(p) ==
    /\ lpc[p] = "u_lock"
    /\ buckets[lloc[p].shop].mu = 0
    /\ UpdateBody(p, lloc[p])
    /\ UNCHANGED <<now, advances>>
    /\ UNCHANGED <<clients, onceMap, mu, onceDone, onceM, clientInfo, config, pc,
                   loc, gh, invCount, staleUpTo, nextOnce, opCount, rx, calls>>
    /\ UNCHANGED <<webhookVars, serviceVars>>

\* GetRemainingTokens once the mutex of the bucket is free.
GetRemainingLock(p) ==
    /\ lpc[p] = "g_lock"
    /\ buckets[lloc[p].shop].mu = 0
    /\ GetRemainingBody(p, lloc[p])
    /\ UNCHANGED <<now, advances>>
    /\ UNCHANGED <<clients, onceMap, mu, onceDone, onceM, clientInfo, config, pc,
                   loc, gh, invCount, staleUpTo, nextOnce, opCount, rx, calls>>
    /\ UNCHANGED <<webhookVars, serviceVars>>

\* Time passes; a bucket nothing has touched for a whole window is idle.
Advance(d) ==
    /\ advances < MaxAdvances
    /\ advances' = advances + 1
    /\ now' = now + d
    /\ bhist' = [s \in Shops |->
                    [bhist[s] EXCEPT !.idle = @ \/ (buckets[s].exists /\ d >= WindowSeconds * MsPerSecond)]]
    /\ lpc' = [g \in LProcs |-> IF LRunning(g) THEN lpc[g] ELSE "idle"]
    /\ lloc' = [g \in LProcs |-> IF LRunning(g) THEN lloc[g] ELSE IdleLLoc]
    /\ UNCHANGED buckets
    /\ UNCHANGED <<clients, onceMap, mu, onceDone, onceM, clientInfo, config, pc,
                   loc, gh, invCount, staleUpTo, nextOnce, opCount, rx, calls>>
    /\ UNCHANGED <<webhookVars, serviceVars>>

\* The rate limiter under concurrent callers.
LimiterNext ==
    \/ \E p \in LProcs, c \in BOOLEAN, s \in Shops : Wait(p, c, s)
    \/ \E p \in LProcs, s \in Shops, h \in Headers : UpdateFromResponse(p, s, h)
    \/ \E p \in LProcs, s \in Shops : GetRemainingTokens(p, s)
    \/ \E p \in LProcs : GetBucketCreate(p)
    \/ \E p \in LProcs : WaitLock(p)
    \/ \E p \in LProcs : WaitTimer(p)
    \/ \E p \in LProcs : WaitCancelled(p)
    \/ \E p \in LProcs : CancelCtx(p)
    \/ \E p \in LProcs : UpdateLock(p)
    \/ \E p \in LProcs : GetRemainingLock(p)
    \/ \E d \in ClockSteps : Advance(d)

LimiterSpec == Init /\ [][LimiterNext]_vars

\* =========================================================== retry executor
\* part_010:60-70 (and 114-122): ExecuteWithRetry is called; the loop is
\* entered when 0 <= MaxRetries, otherwise the call returns at once as one
\* that has exhausted its retries, with no error to wrap.
ExecuteWithRetry(retryConfig) ==
    /\ rx.pc \in {"idle", "ret"}
    /\ rx' = IF 0 <= retryConfig.MaxRetries
             THEN [IdleRx EXCEPT !.pc = "attempt", !.config = retryConfig,
                                 !.delay = retryConfig.InitialDelay]
             ELSE [IdleRx EXCEPT !.pc = "ret", !.config = retryConfig,
                                 !.delay = retryConfig.InitialDelay,
                                 !.result = [ok |-> FALSE, status |-> 0,
                                             err |-> ErrMaxRetries, wraps |-> NoErr]]
    /\ UNCHANGED <<clients, onceMap, mu, onceDone, onceM, clientInfo, config, pc,
                   loc, gh, invCount, staleUpTo, nextOnce, opCount,
                   buckets, bhist, now, lpc, lloc, advances, calls>>
    /\ UNCHANGED <<webhookVars, serviceVars>>

\* part_010:93-122: the attempt function is invoked and returns outcome o;
\* the call returns it, or stores it and goes on to the backoff wait, or has
\* exhausted its retries.
RetryAttempt(o) ==
    /\ rx.pc = "attempt"
    /\ rx' = IF AttemptReturns(o, rx.config)
             THEN [rx EXCEPT !.pc = "ret", !.outs = Append(@, o),
                             !.result = [ok |-> TRUE, status |-> o.status,
                                         err |-> o.err, wraps |-> NoErr]]
             ELSE IF rx.attempt >= rx.config.MaxRetries
             THEN [rx EXCEPT !.pc = "ret", !.outs = Append(@, o),
                             !.lastErr = o.err, !.lastStatus = o.status,
                             !.result = [ok |-> FALSE, status |-> o.status,
                                         err |-> ErrMaxRetries, wraps |-> o.err]]
             ELSE [rx EXCEPT !.pc = "backoff", !.outs = Append(@, o),
                             !.lastErr = o.err, !.lastStatus = o.status,
                             !.attempt = @ + 1]
    /\ UNCHANGED <<clients, onceMap, mu, onceDone, onceM, clientInfo, config, pc,
                   loc, gh, invCount, staleUpTo, nextOnce, opCount,
                   buckets, bhist, now, lpc, lloc, advances, calls>>
    /\ UNCHANGED <<webhookVars, serviceVars>>

\* part_010:79-89: time.After(delay) fires; the delay grows for the next
\* wait.
RetryBackoff ==
    /\ rx.pc = "backoff"
    /\ BackoffSelect(rx.ctxDone) = "timer"
    /\ rx' = [rx EXCEPT !.pc = "attempt", !.waits = Append(@, rx.delay),
                        !.delay = NextDelay(rx.delay, rx.config)]
    /\ UNCHANGED <<clients, onceMap, mu, onceDone, onceM, clientInfo, config, pc,
                   loc, gh, invCount, staleUpTo, nextOnce, opCount,
                   buckets, bhist, now, lpc, lloc, advances, calls>>
    /\ UNCHANGED <<webhookVars, serviceVars>>

\* part_010:80-81: the context is done during the backoff wait.
RetryCancelled ==
    /\ rx.pc = "backoff"
    /\ rx.ctxDone
    /\ BackoffSelect(rx.ctxDone) = "done"
    /\ rx' = [rx EXCEPT !.pc = "ret",
                        !.result = [ok |-> FALSE, status |-> 0,
                                    err |-> ErrCtxCanceled, wraps |-> NoErr]]
    /\ UNCHANGED <<clients, onceMap, mu, onceDone, onceM, clientInfo, config, pc,
                   loc, gh, invCount, staleUpTo, nextOnce, opCount,
                   buckets, bhist, now, lpc, lloc, advances, calls>>
    /\ UNCHANGED <<webhookVars, serviceVars>>

\* The caller cancels the context of the call in progress.
RetryCancelCtx ==
    /\ rx.pc \in {"attempt", "backoff"}
    /\ ~rx.ctxDone
    /\ rx' = [rx EXCEPT !.ctxDone = TRUE, !.cancelledIn = rx.pc]
    /\ UNCHANGED <<clients, onceMap, mu, onceDone, onceM, clientInfo, config, pc,
                   loc, gh, invCount, staleUpTo, nextOnce, opCount,
                   buckets, bhist, now, lpc, lloc, advances, calls>>
    /\ UNCHANGED <<webhookVars, serviceVars>>

RetryNext ==
    \/ \E c \in RetryConfigs : ExecuteWithRetry(c)
    \/ \E o \in AttemptOutcomes : RetryAttempt(o)
    \/ RetryBackoff
    \/ RetryCancelled
    \/ RetryCancelCtx

RetrySpec == Init /\ [][RetryNext]_vars

\* ======================================================= calls through a client
\* What the upstream API answers to one call.
UpstreamOutcomes == {[status |-> 200, err |-> NoErr], [status |-> 429, err |-> ErrOther]}

\* client.GetShop / client.GetProducts (part_009:143-167) on a client that
\* GetClient has returned to goroutine p: a goshopify client is created for
\* the shop and the upstream call is made; its error, if any, is wrapped and
\* returned.
ClientGetShop(p, shopDomain, o) ==
    /\ pc[p] = "ret"
    /\ loc[p].op = "GetClient"
    /\ loc[p].result.client # 0
    /\ opCount < MaxOps
    /\ opCount' = opCount + 1
    /\ calls' = Append(calls, [client |-> loc[p].result.client, shop |-> shopDomain,
                               status |-> o.status, err |-> o.err])
    /\ UNCHANGED <<clients, onceMap, mu, onceDone, onceM, clientInfo, config, pc,
                   loc, gh, invCount, staleUpTo, nextOnce,
                   buckets, bhist, now, lpc, lloc, advances, rx>>
    /\ UNCHANGED <<webhookVars, serviceVars>>

\* The pool and the calls made through the clients it hands out.
ClientNext ==
    \/ \E p \in Procs, d \in DirectInputs : GetClientCall(p, d[1], d[2], d[3])
    \/ \E p \in Procs : GetClientLoadOrStore(p)
    \/ \E p \in Procs : OnceDoSkip(p)
    \/ \E p \in Procs : OnceDoRun(p)
    \/ \E p \in Procs : NewClientOk(p)
    \/ \E p \in Procs : NewClientNil(p)
    \/ \E p \in Procs, s \in Shops, o \in UpstreamOutcomes : ClientGetShop(p, s, o)

ClientSpec == Init /\ [][ClientNext]_vars

\* ======================================================== webhook endpoint
\* The state of the client pool, and the state of the rate limiter, the
\* retry executor and the client calls.
poolVars == <<clients, onceMap, mu, onceDone, onceM, clientInfo, config, pc, loc,
              gh, invCount, staleUpTo, nextOnce, opCount>>
limiterVars == <<buckets, bhist, now, lpc, lloc, advances, rx, calls>>

\* No webhook call is under way: calls are taken one at a time, and vres and
\* resp describe the call under way until its caller has its answer.
WebhookIdle == vres = NoVres /\ resp = NoResp

\* part_016:81: the server constructs its WebhookVerifier at start-up.
NewWebhookVerifier(apiSecret) ==
    /\ verifier = NoVerifier
    /\ verifier' = apiSecret
    /\ UNCHANGED <<vres, resp, handlers, dp>>
    /\ UNCHANGED <<poolVars, limiterVars, serviceVars>>

\* A call of WebhookVerifier.Verify on the server's verifier.
CallVerify(body, hmacHeader) ==
    /\ verifier # NoVerifier
    /\ WebhookIdle
    /\ vres' = [fn |-> "Verify", secret |-> verifier, body |-> body,
                header |-> hmacHeader, err |-> Verify(verifier, body, hmacHeader)]
    /\ UNCHANGED <<verifier, resp, handlers, dp>>
    /\ UNCHANGED <<poolVars, limiterVars, serviceVars>>

\* A call of VerifyWebhookHMAC.
CallVerifyWebhookHMAC(body, hmacHeader, apiSecret) ==
    /\ WebhookIdle
    /\ vres' = [fn |-> "VerifyWebhookHMAC", secret |-> apiSecret, body |-> body,
                header |-> hmacHeader,
                err |-> VerifyWebhookHMAC(body, hmacHeader, apiSecret)]
    /\ UNCHANGED <<verifier, resp, handlers, dp>>
    /\ UNCHANGED <<poolVars, limiterVars, serviceVars>>

\* part_016:296-349: the status webhookHandler answers with. readErr: reading
\* the request body fails; logErr: repository.LogWebhook fails in
\* ProcessWebhook (shopify_service.go:225-228).
SignatureFailureStatus == StatusUnauthorized

webhookStatus(apiSecret, shop, topic, payload, hmacHeader, readErr, logErr) ==
    IF shop = << >> THEN StatusBadRequest
    ELSE IF topic = << >> THEN StatusBadRequest
    ELSE IF readErr THEN StatusBadRequest
    ELSE IF Verify(apiSecret, payload, hmacHeader) # VerifyOk
    THEN SignatureFailureStatus
    ELSE IF logErr THEN StatusInternalServerError
    ELSE StatusOK

\* part_016:300-332: the requests for which webhookHandler calls
\* ProcessWebhook: those that pass the checks of shop, topic and body and
\* whose signature verifies.  (First: a handler that does not wait for the
\* verification.)
ReachesProcessWebhookUnverified(apiSecret, shop, topic, payload, hmacHeader, readErr) ==
    /\ shop # << >>
    /\ topic # << >>
    /\ ~readErr

ReachesProcessWebhook(apiSecret, shop, topic, payload, hmacHeader, readErr) ==
    /\ shop # << >>
    /\ topic # << >>
    /\ ~readErr
    /\ Verify(apiSecret, payload, hmacHeader) = VerifyOk

\* shopify_service.go:216-221: the event ProcessWebhook builds and hands to
\* repository.LogWebhook.
WebhookEvent(topic, shop, payload, verified) ==
    [made |-> TRUE, topic |-> topic, shop |-> shop, payload |-> payload,
     verified |-> verified]

\* POST /webhooks/shopify/{shop} (part_016:290-350). Header.Get answers the
\* empty string for a header the request lacks.
webhookHandler(shop, topic, payload, hmacHeader, readErr, logErr) ==
    /\ verifier # NoVerifier
    /\ WebhookIdle
    /\ LET status == webhookStatus(verifier, shop, topic, payload, hmacHeader,
                                   readErr, logErr)
           verified == shop # << >> /\ topic # << >> /\ ~readErr
           processed == ReachesProcessWebhook(verifier, shop, topic, payload,
                                              hmacHeader, readErr)
       IN  /\ resp' = [served |-> TRUE, shop |-> shop, topic |-> topic,
                       payload |-> payload, hmacHeader |-> hmacHeader,
                       readErr |-> readErr, logErr |-> logErr,
                       status |-> status,
                       event |-> IF processed
                                 THEN WebhookEvent(topic, shop, payload, TRUE)
                                 ELSE NoEvent,
                       logged |-> processed /\ ~logErr]
           /\ vres' = IF verified
                      THEN [fn |-> "Verify", secret |-> verifier, body |-> payload,
                            header |-> hmacHeader,
                            err |-> Verify(verifier, payload, hmacHeader)]
                      ELSE NoVres
    /\ UNCHANGED <<verifier, handlers, dp>>
    /\ UNCHANGED <<poolVars, limiterVars, serviceVars>>

\* The caller has the answer of the call under way.
WebhookAnswered ==
    /\ ~WebhookIdle
    /\ vres' = NoVres
    /\ resp' = NoResp
    /\ UNCHANGED <<verifier, handlers, dp>>
    /\ UNCHANGED <<poolVars, limiterVars, serviceVars>>

WebhookNext ==
    \/ \E k \in WebhookSecrets : NewWebhookVerifier(k)
    \/ \E b \in Bodies, h \in SignatureHeaders : CallVerify(b, h)
    \/ \E b \in Bodies, h \in SignatureHeaders, k \in WebhookSecrets :
          CallVerifyWebhookHMAC(b, h, k)
    \/ \E s \in WebhookShops, t \in WebhookTopics, b \in Bodies,
          h \in SignatureHeaders, re \in BOOLEAN, le \in BOOLEAN :
          webhookHandler(s, t, b, h, re, le)
    \/ WebhookAnswered

WebhookSpec == Init /\ [][WebhookNext]_vars

\* ====================================================== webhook dispatcher
\* WebhookDispatcher.RegisterHandler (webhook_dispatcher.go:28-34)
RegisterHandler(handler) ==
    /\ Len(handlers) < MaxHandlers
    /\ handlers' = Append(handlers, handler)
    /\ UNCHANGED <<verifier, vres, resp, dp>>
    /\ UNCHANGED <<poolVars, limiterVars, serviceVars>>

\* webhook_dispatcher.go:38-43: Dispatch copies the handlers under the read
\* lock.
Dispatch(topic) ==
    /\ dp.pc \in {"idle", "ret"}
    /\ dp' = [IdleDp EXCEPT !.pc = "loop", !.topic = topic,
                            !.snapshot = handlers, !.i = 1]
    /\ UNCHANGED <<verifier, vres, resp, handlers>>
    /\ UNCHANGED <<poolVars, limiterVars, serviceVars>>

\* webhook_dispatcher.go:39-44: the slice the loop of Dispatch ranges over:
\* its copy of the handlers, not the dispatcher's list.
LoopHandlersLive(snapshot, live) == live
LoopHandlers(snapshot, live) == snapshot

\* webhook_dispatcher.go:47-55: the index the loop goes to after Handle of
\* the handler at index i of n has returned; failed: it returned an error.
AfterHandleStopOnError(i, n, failed) == IF failed THEN n + 1 ELSE i + 1
AfterHandle(i, n, failed) == i + 1

\* webhook_dispatcher.go:44-60: the handler at the loop's index can handle
\* the topic; its Handle is invoked and returns, with an error or without.
DispatchHandle(failed) ==
    /\ dp.pc = "loop"
    /\ dp.i <= Len(LoopHandlers(dp.snapshot, handlers))
    /\ CanHandle(LoopHandlers(dp.snapshot, handlers)[dp.i], dp.topic)
    /\ dp' = [dp EXCEPT !.handled = TRUE,
                        !.invoked = Append(@, [pos |-> dp.i, failed |-> failed]),
                        !.i = AfterHandle(dp.i, Len(LoopHandlers(dp.snapshot, handlers)),
                                          failed)]
    /\ UNCHANGED <<verifier, vres, resp, handlers>>
    /\ UNCHANGED <<poolVars, limiterVars, serviceVars>>

\* webhook_dispatcher.go:44-45: the handler at the loop's index cannot
\* handle the topic.
DispatchSkip ==
    /\ dp.pc = "loop"
    /\ dp.i <= Len(LoopHandlers(dp.snapshot, handlers))
    /\ ~CanHandle(LoopHandlers(dp.snapshot, handlers)[dp.i], dp.topic)
    /\ dp' = [dp EXCEPT !.i = @ + 1]
    /\ UNCHANGED <<verifier, vres, resp, handlers>>
    /\ UNCHANGED <<poolVars, limiterVars, serviceVars>>

\* webhook_dispatcher.go:63-69: the error Dispatch returns, whether a
\* handler was found or not and whatever the handlers returned.
DispatchErrorOfHandler(handled, invoked) ==
    IF \E k \in 1..Len(invoked) : invoked[k].failed
    THEN "Webhook handler failed" ELSE NoErr
DispatchError(handled, invoked) == NoErr

\* webhook_dispatcher.go:63-69: the loop is over; Dispatch returns nil.
DispatchReturn ==
    /\ dp.pc = "loop"
    /\ dp.i > Len(LoopHandlers(dp.snapshot, handlers))
    /\ dp' = [dp EXCEPT !.pc = "ret", !.err = DispatchError(dp.handled, dp.invoked)]
    /\ UNCHANGED <<verifier, vres, resp, handlers>>
    /\ UNCHANGED <<poolVars, limiterVars, serviceVars>>

DispatchNext ==
    \/ \E h \in Handlers : RegisterHandler(h)
    \/ \E t \in DispatchTopics : Dispatch(t)
    \/ \E f \in BOOLEAN : DispatchHandle(f)
    \/ DispatchSkip
    \/ DispatchReturn

DispatchSpec == Init /\ [][DispatchNext]_vars

\* ====================================================== encryption service
\* The state of everything but the services.
lateVars == <<poolVars, limiterVars, webhookVars, oauthVars, cacheVars>>

\* The process builds its encryption service with the configured key.
BuildService(key) ==
    /\ ~enc.built
    /\ enc' = [enc EXCEPT !.built = TRUE, !.ok = NewService(key).ok,
                          !.key = NewService(key).key]
    /\ UNCHANGED lateVars

\* A call of Service.Encrypt.
EncryptCall(plaintext, nonce) ==
    /\ enc.built /\ enc.ok
    /\ enc' = [enc EXCEPT !.sealed = [done |-> TRUE, plaintext |-> plaintext,
                                      blob |-> ServiceEncrypt(enc.key, plaintext, nonce)]]
    /\ UNCHANGED lateVars

\* A call of Service.Decrypt.
DecryptCall(ciphertext) ==
    /\ enc.built /\ enc.ok
    /\ LET d == ServiceDecrypt(enc.key, ciphertext)
       IN  enc' = [enc EXCEPT !.opened = [done |-> TRUE, blob |-> ciphertext,
                                          ok |-> d.ok, plaintext |-> d.plaintext]]
    /\ UNCHANGED lateVars

EncryptionNext ==
    \/ \E k \in ServiceKeys : BuildService(k)
    \/ \E p \in Plaintexts, n \in ByteNonces : EncryptCall(p, n)
    \/ \E b \in Blobs : DecryptCall(b)

EncryptionSpec == Init /\ [][EncryptionNext]_vars

\* ============================================================ OAuth callback
\* The state of everything but the sessions and the callbacks.
besideOAuth == <<poolVars, limiterVars, webhookVars, enc, cacheVars>>

\* The callbacks after a step that takes goroutine p to c; the answer of a
\* callback that has returned has been sent.
CbStep(p, c) ==
    [g \in CProcs |-> IF g = p THEN c
                      ELSE IF cb[g].pc \in {"delete", "exchange"} THEN cb[g]
                      ELSE IdleCb]

\* The callbacks that have got as far as the deletion of their session.
CallbacksPast ==
    Cardinality({p \in CProcs : cb[p].pc \in {"delete", "exchange"}})
    + Cardinality(UNION {{<<st, i>> : i \in 1..exchanged[st]} : st \in OAuthStates})

\* GET /auth (part_016:165-208): a request without shop is refused; otherwise
\* a state is drawn at random, which no earlier request has got, and a
\* session of ten minutes is stored under it.
oauthInitHandler(shop, state, randErr, createErr) ==
    /\ LET status == initStatus(shop, randErr, createErr)
           drawn  == shop # "" /\ ~randErr
       IN  /\ drawn => state \notin issued
           /\ issued' = IF drawn THEN issued \cup {state} ELSE issued
           /\ sessions' = IF status = StatusFound
                          THEN [sessions EXCEPT ![state] =
                                   [found |-> TRUE, Shop |-> shop,
                                    ExpiresAt |-> otime + SessionTTL]]
                          ELSE sessions
           /\ authResp' = [status |-> status,
                           state |-> IF status = StatusFound THEN state ELSE ""]
    /\ cleanupErr' = ""
    /\ cb' = CbStep(0, IdleCb)
    /\ UNCHANGED <<exchanged, otime>>
    /\ UNCHANGED besideOAuth

\* GET /auth/callback up to the lookup of the session (part_016:221-251).
oauthCallbackHandler(p, hmacValid, shop, code, state, getErr) ==
    /\ cb[p].pc \in {"idle", "ret"}
    /\ CallbacksPast < MaxCallbacks
    /\ LET session == GetSession(sessions, state)
           status  == callbackStatus(hmacValid, shop, code, state, getErr, session)
       IN  cb' = CbStep(p, IF status # 0
                           THEN [IdleCb EXCEPT !.pc = "ret", !.status = status]
                           ELSE [pc |-> "delete", shop |-> shop, code |-> code,
                                 state |-> state, session |-> session,
                                 status |-> 0])
    /\ authResp' = NoAuthResp
    /\ cleanupErr' = ""
    /\ UNCHANGED <<sessions, issued, exchanged, otime>>
    /\ UNCHANGED besideOAuth

\* part_016:255: the callback deletes the session of its state.  deleteErr:
\* DeleteOne fails and the session stays; the handler drops the error.
CallbackDeleteSession(p, deleteErr) ==
    /\ cb[p].pc = "delete"
    /\ sessions' = IF deleteErr THEN sessions
                   ELSE DeleteSession(sessions, cb[p].state)
    /\ cb' = CbStep(p, [cb[p] EXCEPT !.pc = "exchange"])
    /\ authResp' = NoAuthResp
    /\ cleanupErr' = ""
    /\ UNCHANGED <<issued, exchanged, otime>>
    /\ UNCHANGED besideOAuth

\* part_016:258-263 and the answer: the callback calls ExchangeToken.
\* exchangeErr: the exchange fails.
CallbackExchangeToken(p, exchangeErr) ==
    /\ cb[p].pc = "exchange"
    /\ exchanged' = [exchanged EXCEPT ![cb[p].state] = @ + 1]
    /\ cb' = CbStep(p, [IdleCb EXCEPT !.pc = "ret",
                                      !.status = IF exchangeErr
                                                 THEN StatusInternalServerError
                                                 ELSE StatusOK])
    /\ authResp' = NoAuthResp
    /\ cleanupErr' = ""
    /\ UNCHANGED <<sessions, issued, otime>>
    /\ UNCHANGED besideOAuth

\* SessionRepository.CleanupExpiredSessions (session_repository.go:73-84).
\* deleteErr: DeleteMany fails; the expired sessions stay and the error is
\* returned.
CleanupExpiredSessions(deleteErr) ==
    /\ sessions' = IF deleteErr THEN sessions ELSE CleanupExpired(sessions, otime)
    /\ cleanupErr' = IF deleteErr THEN ErrCleanupFailed ELSE ""
    /\ cb' = CbStep(0, IdleCb)
    /\ authResp' = NoAuthResp
    /\ UNCHANGED <<issued, exchanged, otime>>
    /\ UNCHANGED besideOAuth

\* Time passes for the sessions.
SessionTick ==
    /\ otime < MaxSessionTime
    /\ otime' = otime + 1
    /\ cb' = CbStep(0, IdleCb)
    /\ authResp' = NoAuthResp
    /\ cleanupErr' = ""
    /\ UNCHANGED <<sessions, issued, exchanged>>
    /\ UNCHANGED besideOAuth

OAuthNext ==
    \/ \E s \in OAuthShops \cup {""}, st \in OAuthStates, re \in BOOLEAN,
          ce \in BOOLEAN : oauthInitHandler(s, st, re, ce)
    \/ \E p \in CProcs, hv \in BOOLEAN, s \in OAuthShops \cup {""},
          c \in OAuthCodes \cup {""}, st \in OAuthStates \cup {""}, ge \in BOOLEAN :
          oauthCallbackHandler(p, hv, s, c, st, ge)
    \/ \E p \in CProcs, de \in BOOLEAN : CallbackDeleteSession(p, de)
    \/ \E p \in CProcs, ee \in BOOLEAN : CallbackExchangeToken(p, ee)
    \/ \E de \in BOOLEAN : CleanupExpiredSessions(de)
    \/ SessionTick

OAuthSpec == Init /\ [][OAuthNext]_vars

\* ============================================================ response cache
\* The state of everything but the cache.  The steps below are the critical
\* sections of ResponseCache.mu: what a call does between taking the lock and
\* giving it up is one step.
besideCache == <<poolVars, limiterVars, webhookVars, enc, oauthVars>>

\* The calls after a step that takes goroutine p to c; the result of a call
\* that has returned has been taken.
CcStep(p, c) ==
    [g \in GProcs |-> IF g = p THEN c
                      ELSE IF cc[g].pc = "g_lock" THEN cc[g]
                      ELSE IdleCc]

\* part_013:57-58: what Get does to the entry of its key once it has the
\* write lock: it deletes it without a second look.
DeleteUnderLock(entry, t) == NoEntry

\* ResponseCache.Get under the read lock (part_013:46-56, 63): a miss, a hit,
\* or an expired entry, for which the read lock is given up.
CacheGet(p, key) ==
    /\ cc[p].pc \in {"idle", "ret"}
    /\ LET entry == entries[key]
           call  == [IdleCc EXCEPT !.op = "Get", !.key = key]
       IN  cc' = CcStep(p, IF ~entry.exists THEN [call EXCEPT !.pc = "ret"]
                           ELSE IF Expired(entry, ctime) THEN [call EXCEPT !.pc = "g_lock"]
                           ELSE [call EXCEPT !.pc = "ret", !.data = entry.Data,
                                             !.ok = TRUE])
    /\ UNCHANGED <<entries, ctime>>
    /\ UNCHANGED besideCache

\* part_013:57-61: Get under the write lock deletes the entry of its key and
\* answers (nil, false).
CacheGetDelete(p) ==
    /\ cc[p].pc = "g_lock"
    /\ entries' = [entries EXCEPT ![cc[p].key] = DeleteUnderLock(@, ctime)]
    /\ cc' = CcStep(p, [cc[p] EXCEPT !.pc = "ret"])
    /\ UNCHANGED ctime
    /\ UNCHANGED besideCache

\* ResponseCache.Set (part_013:68-90)
CacheSet(p, key, value, ttl) ==
    /\ cc[p].pc \in {"idle", "ret"}
    /\ \E oldest \in (IF CachedKeys(entries) = {} THEN {""} ELSE OldestKeys(entries)) :
          entries' = AfterSet(entries, oldest, key, value, ttl, ctime)
    /\ cc' = CcStep(p, [IdleCc EXCEPT !.pc = "ret", !.op = "Set", !.key = key,
                                      !.data = value])
    /\ UNCHANGED ctime
    /\ UNCHANGED besideCache

\* ResponseCache.Delete (part_013:93-97)
CacheDelete(p, key) ==
    /\ cc[p].pc \in {"idle", "ret"}
    /\ entries' = [entries EXCEPT ![key] = NoEntry]
    /\ cc' = CcStep(p, [IdleCc EXCEPT !.pc = "ret", !.op = "Delete", !.key = key])
    /\ UNCHANGED ctime
    /\ UNCHANGED besideCache

\* ResponseCache.Clear (part_013:100-104)
CacheClear(p) ==
    /\ cc[p].pc \in {"idle", "ret"}
    /\ entries' = [k \in CacheKeys |-> NoEntry]
    /\ cc' = CcStep(p, [IdleCc EXCEPT !.pc = "ret", !.op = "Clear"])
    /\ UNCHANGED ctime
    /\ UNCHANGED besideCache

\* ResponseCache.cleanup (part_013:139-161): a round of the cleanup goroutine.
cleanup ==
    /\ entries' = AfterCleanup(entries, ctime)
    /\ cc' = CcStep(0, IdleCc)
    /\ UNCHANGED ctime
    /\ UNCHANGED besideCache

\* Time passes.
CacheTick ==
    /\ ctime < MaxCacheTime
    /\ ctime' = ctime + 1
    /\ cc' = CcStep(0, IdleCc)
    /\ UNCHANGED entries
    /\ UNCHANGED besideCache

CacheNext ==
    \/ \E p \in GProcs, k \in CacheKeys : CacheGet(p, k)
    \/ \E p \in GProcs : CacheGetDelete(p)
    \/ \E p \in GProcs, k \in CacheKeys, v \in CacheValues, t \in CacheTTLs :
          CacheSet(p, k, v, t)
    \/ \E p \in GProcs, k \in CacheKeys : CacheDelete(p, k)
    \/ \E p \in GProcs : CacheClear(p)
    \/ cleanup
    \/ CacheTick

CacheSpec == Init /\ [][CacheNext]_vars

\* ================================================================== claims
GetClientReturned(p) == pc[p] = "ret" /\ loc[p].op = "GetClient"
HasEmptyCredentials(p) == loc[p].apiKey = "" \/ loc[p].apiSecret = EmptyStr

\* C1: for every key that has seen no invalidation and no failed
\* construction, the constructor has been invoked at most once, and every
\* GetClient call that has returned for the key returned, without error, the
\* client of that single construction.
C1_SingleConstruction ==
    \A k \in PoolKeys :
        (invCount[k] = 0 /\ Failed(k) = {}) =>
            /\ Cardinality(Constructions(k)) <= 1
            /\ \A p \in Procs :
                   (GetClientReturned(p) /\ loc[p].key = k) =>
                       /\ loc[p].result.err = ""
                       /\ Constructions(k) = {loc[p].result.client}

\* Three callers of one key all missed the cache, and all have returned the
\* same client.
C1_Witness ==
    \E k \in PoolKeys :
        /\ invCount[k] = 0
        /\ Failed(k) = {}
        /\ \A p \in Procs : /\ GetClientReturned(p)
                            /\ loc[p].key = k
                            /\ gh[p].cachedAtLoad = 0
                            /\ loc[p].once # 0
                            /\ loc[p].result.client # 0

\* C2: a GetClient call that starts after an InvalidateClient of its key has
\* returned never returns a client whose construction began before that
\* invalidation was called.
C2_FreshAfterInvalidate ==
    \A p \in Procs :
        (GetClientReturned(p) /\ loc[p].result.client # 0) =>
            loc[p].result.client > gh[p].staleAtStart

\* C3: at most one construction is in flight for a key.
C3_AtMostOneInFlight ==
    \A k \in PoolKeys : Cardinality(InFlight(k)) <= 1

\* C4: a GetClient call that went through a once whose construction failed
\* returns the construction error of the caller that ran it.
C4_SharedConstructionError ==
    \A p \in Procs :
        ( /\ GetClientReturned(p)
          /\ loc[p].once # 0
          /\ \E i \in 1..Len(clientInfo) :
                 clientInfo[i].once = loc[p].once /\ clientInfo[i].state = "nil" )
        => loc[p].result = [client |-> 0, err |-> ErrCreate]

\* C5: a failed construction caches nothing, and a GetClient call that runs
\* alone on its key after a failed construction, with nothing cached, invokes
\* the constructor; if the constructor succeeds the call returns the new
\* client and the new client is the cached one.
C5_RetryAfterFailure ==
    /\ \A k \in PoolKeys : clients[k] # 0 => clientInfo[clients[k]].state = "ok"
    /\ \A p \in Procs :
        ( /\ GetClientReturned(p)
          /\ gh[p].afterFail
          /\ ~gh[p].overlap
          /\ gh[p].cachedAtLoad = 0 )
        => /\ loc[p].newClient # 0
           /\ NewClientWithOptions(loc[p].apiKey, loc[p].apiSecret) =>
                  /\ loc[p].result = [client |-> loc[p].newClient, err |-> ""]
                  /\ clients[loc[p].key] = loc[p].newClient

\* A call retried alone after a failure has built and returned a client.
C5_Witness ==
    \E p \in Procs :
        /\ GetClientReturned(p)
        /\ gh[p].afterFail
        /\ ~gh[p].overlap
        /\ gh[p].cachedAtLoad = 0
        /\ loc[p].result.client # 0
        /\ loc[p].result.client = loc[p].newClient
        /\ clients[loc[p].key] = loc[p].newClient

\* C6: a client returned by GetClientForTenant that was built for the same
\* tenant was built with the credentials the call read from the tenant's
\* configuration.
C6_ReconfigureInvalidates ==
    \A p \in Procs :
        ( /\ GetClientReturned(p)
          /\ loc[p].via # NoTenant
          /\ loc[p].result.client # 0
          /\ clientInfo[loc[p].result.client].via = loc[p].via )
        => /\ clientInfo[loc[p].result.client].apiKey = loc[p].apiKey
           /\ clientInfo[loc[p].result.client].apiSecret = loc[p].apiSecret

\* C7: calls of GetClientForTenant for distinct pairs of project identifier
\* and environment use distinct pool keys, and a call is never handed a client
\* built for another pair.
C7_KeyUniquePerTenant ==
    /\ \A p, q \in Procs :
           ( /\ pc[p] # "idle" /\ pc[q] # "idle"
             /\ loc[p].via # NoTenant /\ loc[q].via # NoTenant
             /\ loc[p].via # loc[q].via )
           => loc[p].key # loc[q].key
    /\ \A p \in Procs :
           ( /\ GetClientReturned(p)
             /\ loc[p].via # NoTenant
             /\ loc[p].result.client # 0 )
           => clientInfo[loc[p].result.client].via = loc[p].via

\* C8: a GetClient call that finds a client cached at its cache check
\* returns that client and invokes no constructor, whatever credentials it
\* was passed.
C8_CachedClientReturned ==
    \A p \in Procs :
        (GetClientReturned(p) /\ gh[p].cachedAtLoad # 0) =>
            /\ loc[p].result = [client |-> gh[p].cachedAtLoad, err |-> ""]
            /\ loc[p].newClient = 0

\* A call passed other credentials than the cached client's has returned
\* the cached client.
C8_Witness ==
    \E p \in Procs :
        /\ GetClientReturned(p)
        /\ gh[p].cachedAtLoad # 0
        /\ loc[p].result.client = gh[p].cachedAtLoad
        /\ \/ clientInfo[gh[p].cachedAtLoad].apiKey # loc[p].apiKey
           \/ clientInfo[gh[p].cachedAtLoad].apiSecret # loc[p].apiSecret

\* C9: a GetClient call passed an empty API key or an empty API secret
\* returns an error and no client, and has constructed nothing.
C9_EmptyCredentialsRejected ==
    \A p \in Procs :
        (GetClientReturned(p) /\ HasEmptyCredentials(p)) =>
            /\ loc[p].result.err # ""
            /\ loc[p].result.client = 0
            /\ loc[p].newClient # 0 => clientInfo[loc[p].newClient].state = "nil"

\* C10: an InvalidateClient call that ran alone on its key leaves no client
\* and no once for the key, whether or not there was anything to remove.
C10_InvalidateIdempotent ==
    \A p \in Procs :
        (pc[p] = "ret" /\ loc[p].op = "InvalidateClient" /\ ~gh[p].overlap) =>
            /\ clients[loc[p].key] = 0
            /\ onceMap[loc[p].key] = 0

\* A second invalidation of a key has returned, having found nothing cached.
C10_Witness ==
    \E p \in Procs :
        /\ pc[p] = "ret"
        /\ loc[p].op = "InvalidateClient"
        /\ ~gh[p].overlap
        /\ gh[p].emptyAtStart
        /\ invCount[loc[p].key] >= 2
        /\ clients[loc[p].key] = 0
        /\ onceMap[loc[p].key] = 0

\* C11: the cached client and the once of a key change only in a step of a
\* GetClient or InvalidateClient call on that key, and a GetClient call that
\* waits for a once to finish waits for a construction for its own key.
C11_KeysIndependent ==
    /\ [][\A k \in PoolKeys :
             (clients'[k] # clients[k] \/ onceMap'[k] # onceMap[k]) =>
                 \E p \in Procs : /\ pc'[p] # pc[p]
                                  /\ pc'[p] # "idle"
                                  /\ loc'[p].key = k]_vars
    /\ [](\A p \in Procs :
             (pc[p] = "gc_do" /\ ~OnceIsDone(loc[p].once) /\ ~OnceCanLock(loc[p].once))
                 => loc[onceM[loc[p].once]].key = loc[p].key)

\* While a construction for one key is in flight, a GetClient call for
\* another key has built and returned its client.
C11_Witness ==
    \E p, q \in Procs :
        /\ pc[q] = "gc_construct"
        /\ GetClientReturned(p)
        /\ loc[p].key # loc[q].key
        /\ loc[p].newClient > loc[q].newClient
        /\ loc[p].result = [client |-> loc[p].newClient, err |-> ""]
        /\ clients[loc[p].key] = loc[p].newClient
        /\ clients[loc[q].key] = 0

\* C12: every upstream call made through a pool client has been preceded by
\* a RateLimiter.Wait for its account, which leaves the account's bucket in
\* the limiter, and a call that failed has been handed to ExecuteWithRetry.
C12_CallsThrottledAndRetried ==
    \A i \in 1..Len(calls) :
        /\ buckets[calls[i].shop].exists
        /\ calls[i].err # NoErr => rx.pc # "idle"

\* ------------------------------------------------- claims on the rate limiter
\* A rate limiter call of kind op that goroutine p has returned from, and
\* the step in which it returns: a result is taken by its caller before any
\* other step.
LReturned(p, op) == lpc[p] = "ret" /\ lloc[p].op = op
LReturns(p, op) == lpc'[p] = "ret" /\ lloc'[p].op = op

\* A Wait call that cannot go on by itself: it sleeps on its timer, or it
\* waits for the bucket's mutex while another goroutine holds it.
WaitBlocked(p) ==
    /\ lloc[p].op = "Wait"
    /\ \/ lpc[p] = "w_sleep"
       \/ lpc[p] = "w_lock" /\ buckets[lloc[p].shop].mu # 0

\* The headers of the model by what they say: used/limit for the well-formed
\* ones, the last of which has the least int for used; the others are missing
\* or malformed ("5/40_" is no used/limit pair, though Sscanf reads 5 and 40
\* from it).
WellFormedHeaders ==
    {[text |-> Hdr_40_40, used |-> Int64(40), limit |-> Int64(40)],
     [text |-> Hdr_5_40,  used |-> Int64(5),  limit |-> Int64(40)],
     [text |-> Hdr_45_40, used |-> Int64(45), limit |-> Int64(40)],
     [text |-> Hdr_m5_40, used |-> Int64(0 - 5), limit |-> Int64(40)],
     [text |-> Hdr_min_40, used |-> [neg |-> TRUE, mag |-> MinInt64],
                           limit |-> Int64(40)]}
MalformedHeaders == {HdrMissing, Hdr_40_x, Hdr_big_40, Hdr_5_40u}

\* C13: in every bucket, whatever Wait, UpdateFromResponse and
\* GetRemainingTokens calls have been made, 0 <= tokens <= maxTokens.
C13_TokensInRange ==
    \A s \in Shops :
        buckets[s].exists =>
            /\ 0 <= buckets[s].tokens
            /\ buckets[s].tokens <= buckets[s].maxTokens

\* C14: a Wait call that has returned has returned Ok or the cancellation
\* error of its context, and no other error.
C14_WaitOkOrCancelled ==
    \A p \in LProcs : LReturned(p, "Wait") => lloc[p].err \in {"", ErrCanceled}

\* C15: an exhausted bucket of the default configuration that has been left
\* idle for a whole window holds maxTokens tokens again: that is what
\* GetRemainingTokens, which refills the bucket, then reports.
C15_RefillAfterWindow ==
    [][\A p \in LProcs :
          ( /\ LReturns(p, "GetRemainingTokens")
            /\ buckets[lloc'[p].shop].exists
            /\ buckets[lloc'[p].shop].maxTokens = MaxRequests
            /\ buckets[lloc'[p].shop].tokens = 0
            /\ bhist[lloc'[p].shop].idle )
          => /\ lloc'[p].tokens = MaxRequests
             /\ buckets'[lloc'[p].shop].tokens = MaxRequests]_vars

\* C16: on a fresh bucket, within the second of its creation, every Wait call
\* that returned Ok without sleeping took one token, there are at most
\* maxTokens of them, and no Wait call sleeps before maxTokens of them have
\* returned.
C16_FreshBucketBurst ==
    \A s \in Shops :
        ( /\ buckets[s].exists
          /\ bhist[s].fresh
          /\ now - buckets[s].lastRefill < MsPerSecond )
        => /\ bhist[s].okNoSleep <= MaxRequests
           /\ buckets[s].tokens = MaxRequests - bhist[s].okNoSleep
           /\ bhist[s].slept => bhist[s].okNoSleep = MaxRequests

\* maxTokens Wait calls have returned Ok at once on a fresh bucket and the
\* next one sleeps.
C16_Witness ==
    \E s \in Shops, p \in LProcs :
        /\ buckets[s].exists
        /\ bhist[s].fresh
        /\ now = buckets[s].lastRefill
        /\ bhist[s].okNoSleep = MaxRequests
        /\ buckets[s].tokens = 0
        /\ lpc[p] = "w_sleep"
        /\ lloc[p].shop = s

\* C17: a blocked Wait call whose context is cancelled is at a point where it
\* takes the cancellation: it is never held up waiting for something else.
C17_CancelReturnsAtOnce ==
    \A p \in LProcs :
        (WaitBlocked(p) /\ lloc[p].ctxDone) => lpc[p] = "w_sleep"

\* C18: an UpdateFromResponse whose header is missing or malformed leaves
\* tokens, maxTokens and the last-refill time of the bucket as they were.
C18_MalformedHeaderIgnored ==
    [][\A p \in LProcs :
          ( /\ LReturns(p, "UpdateFromResponse")
            /\ lloc'[p].header \in MalformedHeaders )
          => buckets'[lloc'[p].shop] = buckets[lloc'[p].shop]]_vars

\* max(0, limit - used) over the integers.
ExpectedTokens(used, limit) ==
    IF BigSub(limit, used).neg THEN Int64(0) ELSE BigSub(limit, used)

\* C19: an UpdateFromResponse whose header is the well-formed "used/limit"
\* leaves the bucket with tokens = max(0, limit - used) and maxTokens = limit,
\* whatever the bucket held before.
C19_HeaderOverwrites ==
    [][\A p \in LProcs : \A w \in WellFormedHeaders :
          ( /\ LReturns(p, "UpdateFromResponse")
            /\ lloc'[p].header = w.text )
          => /\ Int64(buckets'[lloc'[p].shop].tokens) = ExpectedTokens(w.used, w.limit)
             /\ Int64(buckets'[lloc'[p].shop].maxTokens) = w.limit]_vars

\* --------------------------------------------- claims on the retry executor
\* Failures outside the retryable set of the configurations: a status that
\* is not retryable, with or without an error.
NonRetryableFailures ==
    {[status |-> 404, err |-> NoErr], [status |-> 404, err |-> ErrOther]}

\* C20: when the first attempt fails with a non-retryable failure,
\* ExecuteWithRetry has returned after that single invocation, with no
\* backoff wait.
C20_NonRetryableReturnsAtOnce ==
    (Len(rx.outs) >= 1 /\ rx.outs[1] \in NonRetryableFailures) =>
        /\ rx.pc = "ret"
        /\ Len(rx.outs) = 1
        /\ rx.waits = << >>

\* The errors of a context: cancellation and deadline exceeded.
ContextErrors == {ErrCtxCanceled, ErrCtxDeadline}

\* The attempt outcomes isRetryableError calls retryable, and those among
\* them that carry a retryable status.
RetryableFailures ==
    {o \in AttemptOutcomes :
        isRetryableError(o.err, o.status, DefaultRetryConfig.RetryableErrors)}
RetryableStatusFailures ==
    {o \in AttemptOutcomes : o.status \in DefaultRetryConfig.RetryableErrors}

\* C21: an attempt that returns a cancellation or deadline-exceeded error is
\* the last attempt of the call: ExecuteWithRetry has returned that error,
\* without another invocation and without a backoff wait after it.
C21_ContextErrorNotRetried ==
    \A i \in 1..Len(rx.outs) :
        rx.outs[i].err \in ContextErrors =>
            /\ i = Len(rx.outs)
            /\ rx.pc = "ret"
            /\ Len(rx.waits) = i - 1
            /\ \/ rx.result.err = rx.outs[i].err
               \/ rx.result.wraps = rx.outs[i].err

\* C22: when the context is done during a backoff wait, the next step of
\* the call returns the context's cancellation error: the wait is not
\* completed and the attempt function is not invoked again.
C22_CancelDuringBackoff ==
    [][(rx.pc = "backoff" /\ rx.ctxDone) =>
          /\ rx'.pc = "ret"
          /\ rx'.result.err = ErrCtxCanceled
          /\ ~rx'.result.ok
          /\ rx'.outs = rx.outs
          /\ rx'.waits = rx.waits]_vars

C22_Witness ==
    /\ rx.pc = "ret"
    /\ rx.cancelledIn = "backoff"
    /\ rx.result.err = ErrCtxCanceled
    /\ Len(rx.outs) >= 1
    /\ Len(rx.waits) = Len(rx.outs) - 1

\* C23: when the first MaxRetries invocations fail with a retryable status
\* and invocation MaxRetries+1 succeeds, ExecuteWithRetry has returned that
\* success, after MaxRetries+1 invocations and MaxRetries backoff waits.
C23_SuccessOnLastAttempt ==
    LET n == rx.config.MaxRetries
    IN  ( /\ rx.pc # "idle"
          /\ n >= 0
          /\ Len(rx.outs) = n + 1
          /\ \A i \in 1..n : rx.outs[i] \in RetryableStatusFailures
          /\ rx.outs[n + 1] = [status |-> 200, err |-> NoErr] )
        => /\ rx.pc = "ret"
           /\ rx.result.ok
           /\ rx.result.err = NoErr
           /\ rx.result.status = 200
           /\ Len(rx.waits) = n

C23_Witness ==
    /\ rx.pc = "ret"
    /\ rx.config.MaxRetries = 3
    /\ Len(rx.outs) = 4
    /\ \A i \in 1..3 : rx.outs[i] \in RetryableStatusFailures
    /\ rx.outs[4] = [status |-> 200, err |-> NoErr]
    /\ rx.result.ok
    /\ Len(rx.waits) = 3

\* C24: while every attempt fails retryably and the context is not
\* cancelled, ExecuteWithRetry makes at most MaxRetries+1 invocations,
\* returns exactly after invocation MaxRetries+1, and then returns a
\* non-nil error that wraps the error of the last attempt.
C24_ExhaustedWrapsLastFailure ==
    LET n == rx.config.MaxRetries
    IN  ( /\ rx.pc # "idle"
          /\ n >= 0
          /\ ~rx.ctxDone
          /\ \A i \in 1..Len(rx.outs) : rx.outs[i] \in RetryableFailures )
        => /\ Len(rx.outs) <= n + 1
           /\ (rx.pc = "ret") <=> (Len(rx.outs) = n + 1)
           /\ rx.pc = "ret" =>
                 /\ ~rx.result.ok
                 /\ rx.result.err = ErrMaxRetries
                 /\ rx.result.wraps # NoErr
                 /\ rx.result.wraps = rx.outs[n + 1].err

\* InitialDelay x BackoffFactor^(k-1), in milliseconds.
RECURSIVE UncappedDelay(_, _)
UncappedDelay(retryConfig, k) ==
    IF k = 1 THEN retryConfig.InitialDelay
    ELSE (UncappedDelay(retryConfig, k - 1) * retryConfig.BackoffFactor) \div 10

\* C25: the k-th backoff wait of a call lasts
\* min(InitialDelay x BackoffFactor^(k-1), MaxDelay), so never more than
\* MaxDelay.
C25_BackoffCapped ==
    \A k \in 1..Len(rx.waits) :
        /\ rx.waits[k] = Min(UncappedDelay(rx.config, k), rx.config.MaxDelay)
        /\ rx.waits[k] <= rx.config.MaxDelay

\* ---------------------------------------- claims on webhook verification
\* Two bodies of the same length that differ in exactly one byte.
DiffersInOneByte(b1, b2) ==
    /\ Len(b1) = Len(b2)
    /\ \E i \in 1..Len(b1) :
          /\ b1[i] # b2[i]
          /\ \A j \in 1..Len(b1) : j # i => b1[j] = b2[j]

\* A verification (by either function) has been made.
Verified == vres.fn # "none"

\* C26: a header that is the base64 encoding of the HMAC of a body under the
\* secret verifies Ok against that body, and fails against a body that
\* differs from it in a single byte.
C26_Base64SignatureVerifies ==
    Verified =>
        \A b \in Bodies :
            vres.header = Base64Encode(HmacSha256(vres.secret, b)) =>
                /\ b = vres.body => vres.err = VerifyOk
                /\ DiffersInOneByte(b, vres.body) =>
                      vres.err \in {ErrSignatureFailed, ErrHMACFailed}

C26_Witness ==
    /\ vres.fn = "Verify"
    /\ vres.header = Base64Encode(HmacSha256(vres.secret, vres.body))
    /\ Len(vres.header) = 44
    /\ vres.err = VerifyOk

\* C27: a header that is the hexadecimal encoding of the HMAC of the body
\* under the secret is accepted.
C27_HexSignatureVerifies ==
    (Verified /\ vres.header = HexEncode(HmacSha256(vres.secret, vres.body)))
        => vres.err = VerifyOk

\* C28: verification answers Ok only when the header, decoded as base64 or
\* as hexadecimal, equals the HMAC of the body; an empty header gives the
\* missing-header error, and a header that decodes neither way gives the
\* decode error.
C28_FailsClosed ==
    Verified =>
        /\ vres.err = VerifyOk =>
              /\ vres.header # << >>
              /\ \E d \in {Base64Decode(vres.header), HexDecode(vres.header)} :
                    d.ok /\ d.bytes = HmacSha256(vres.secret, vres.body)
        /\ vres.header = << >> => vres.err \in {ErrMissingHeader, ErrMissingHMAC}
        /\ ( /\ vres.header # << >>
             /\ ~Base64Decode(vres.header).ok
             /\ ~HexDecode(vres.header).ok ) => vres.err = ErrDecodeHMAC

C28_Witness ==
    /\ vres.fn = "VerifyWebhookHMAC"
    /\ vres.header = <<"!", "!">>
    /\ vres.err = ErrDecodeHMAC

\* C29: to a request with a shop and a readable body, the endpoint answers
\* 400 when the topic header or the signature header is missing, and 401
\* when both are there and the signature does not match.
C29_MissingHeader400Mismatch401 ==
    (resp.served /\ resp.shop # << >> /\ ~resp.readErr) =>
        /\ (resp.topic = << >> \/ resp.hmacHeader = << >>) =>
              resp.status = StatusBadRequest
        /\ ( /\ resp.topic # << >>
             /\ resp.hmacHeader # << >>
             /\ Verify(verifier, resp.payload, resp.hmacHeader) # VerifyOk ) =>
              resp.status = StatusUnauthorized

\* ------------------------------------------ claims on the webhook dispatcher
\* The positions up to n of a snapshot whose handler can handle the topic, in
\* order.
RECURSIVE MatchingPositions(_, _, _)
MatchingPositions(snapshot, topic, n) ==
    IF n = 0 THEN << >>
    ELSE IF CanHandle(snapshot[n], topic)
    THEN Append(MatchingPositions(snapshot, topic, n - 1), n)
    ELSE MatchingPositions(snapshot, topic, n - 1)

\* C30: the Handle invocations of a Dispatch are, in order and once each,
\* the handlers of its snapshot that can handle the topic: those before the
\* loop's index while it runs, all of them when it has returned.
C30_DispatchInvokesMatching ==
    dp.pc \in {"loop", "ret"} =>
        LET upto == IF dp.pc = "ret" THEN Len(dp.snapshot) ELSE dp.i - 1
        IN  [k \in 1..Len(dp.invoked) |-> dp.invoked[k].pos]
               = MatchingPositions(dp.snapshot, dp.topic, upto)

C30_Witness ==
    /\ dp.pc = "ret"
    /\ dp.topic = "a"
    /\ dp.snapshot = <<"h1", "h2">>
    /\ Len(dp.invoked) = 2
    /\ dp.invoked[1].failed
    /\ Len(handlers) > Len(dp.snapshot)

\* C31: when a Handle of a Dispatch has returned an error, the Dispatch, once
\* it has returned, has invoked every handler of its snapshot after that one
\* that can handle the topic.
C31_FailureDoesNotStopDispatch ==
    dp.pc = "ret" =>
        \A k \in 1..Len(dp.invoked) :
            dp.invoked[k].failed =>
                \A j \in (dp.invoked[k].pos + 1)..Len(dp.snapshot) :
                    CanHandle(dp.snapshot[j], dp.topic) =>
                        \E m \in (k + 1)..Len(dp.invoked) : dp.invoked[m].pos = j

C31_Witness ==
    /\ dp.pc = "ret"
    /\ Len(dp.invoked) = 3
    /\ dp.invoked[1].failed
    /\ dp.invoked[2].failed
    /\ ~dp.invoked[3].failed

\* C32: a Dispatch that has returned has returned no error, whether handlers
\* failed or not, and with no invocation when no handler of its snapshot can
\* handle the topic.
C32_DispatchReturnsNil ==
    dp.pc = "ret" =>
        /\ dp.err = NoErr
        /\ (\A j \in 1..Len(dp.snapshot) : ~CanHandle(dp.snapshot[j], dp.topic))
              => dp.invoked = << >>

C32_Witness ==
    /\ dp.pc = "ret"
    /\ dp.err = NoErr
    /\ Len(dp.invoked) = 1
    /\ dp.invoked[1].failed
    /\ Len(dp.snapshot) = 2

\* C34: the handlers a Dispatch considers are those of the list at its
\* snapshot: the snapshot is the list as it was when the Dispatch began, it
\* does not change while the Dispatch runs, and no position beyond it is
\* invoked, whatever is registered meanwhile.
C34_SnapshotIsolatesDispatch ==
    /\ [](dp.pc \in {"loop", "ret"} =>
             /\ Len(dp.snapshot) <= Len(handlers)
             /\ dp.snapshot = SubSeq(handlers, 1, Len(dp.snapshot))
             /\ dp.i <= Len(dp.snapshot) + 1
             /\ \A k \in 1..Len(dp.invoked) : dp.invoked[k].pos <= Len(dp.snapshot))
    /\ [][ /\ (dp.pc = "loop" => dp'.snapshot = dp.snapshot)
           /\ (dp.pc # "loop" /\ dp'.pc = "loop" => dp'.snapshot = handlers) ]_vars

C34_Witness ==
    /\ dp.pc = "ret"
    /\ Len(dp.snapshot) = 1
    /\ Len(dp.invoked) = 1
    /\ Len(handlers) = 3
    /\ CanHandle(handlers[2], dp.topic)
    /\ CanHandle(handlers[3], dp.topic)

\* ------------------------------------------ claims on the encryption service
\* C33: a service is built exactly when its key has 32 bytes, and a blob the
\* service has produced from a plaintext decrypts, by the same service, to
\* that plaintext.
C33_EncryptDecryptRoundTrip ==
    /\ enc.built => (enc.ok <=> Len(enc.key) = 32)
    /\ (enc.sealed.done /\ enc.opened.done /\ enc.opened.blob = enc.sealed.blob)
          => /\ enc.opened.ok
             /\ enc.opened.plaintext = enc.sealed.plaintext

C33_Witness ==
    /\ enc.built /\ enc.ok
    /\ enc.sealed.done /\ enc.opened.done
    /\ enc.opened.blob = enc.sealed.blob
    /\ enc.opened.ok
    /\ enc.opened.plaintext = <<115, 50>>

\* ------------------------------------------------- claims on the client pool
\* C36: while no construction for a key has failed, no GetClient call on the
\* key has returned an error, whatever InvalidateClient calls ran beside
\* it; and no GetClient call has returned neither a client nor an error.
C36_NoErrorWithoutFailure ==
    \A p \in Procs :
        GetClientReturned(p) =>
            /\ Failed(loc[p].key) = {} => loc[p].result.err = ""
            /\ loc[p].result.client = 0 => loc[p].result.err # ""

\* ------------------------------------------------ claims on bucket creation

\* The goroutines that have a bucket from getBucket.
HasBucket(p) == LRunning(p) /\ lpc[p] # "gb_create"

\* C35: under concurrent first use of one shop by several callers exactly one
\* bucket is created for it and every caller works on that bucket; a bucket,
\* once in the map, stays there and is never created a second time.
C35_OneBucketPerShop ==
    /\ \A s \in Shops : /\ bhist[s].created <= 1
                        /\ buckets[s].exists <=> bhist[s].created = 1
    /\ \A p \in LProcs : HasBucket(p) => buckets[lloc[p].shop].exists

\* Two callers missed the bucket of one shop; one has created it and taken a
\* token from it, the other is at the second lookup and finds it.
C35_Witness ==
    \E p \in LProcs, q \in LProcs :
        /\ lpc[p] = "gb_create"
        /\ lpc[q] = "ret"
        /\ lloc[q].op = "Wait"
        /\ lloc[q].shop = lloc[p].shop
        /\ bhist[lloc[p].shop].created = 1
        /\ bhist[lloc[p].shop].fresh
        /\ buckets[lloc[p].shop].tokens < MaxRequests
\* --------------------------------------------- claims on token conservation

\* The Wait calls asleep inside the bucket of shop s.
Sleepers(s) == {p \in LProcs : lpc[p] = "w_sleep" /\ lloc[p].shop = s}

\* The step on which goroutine p returns from Wait leaves its bucket with the
\* refilled count less one when it returns nil, which it does only when the
\* refilled count is positive, and takes nothing when it returns an error.
WaitConserves(p) ==
    LET s  == lloc'[p].shop
        rb == refill(buckets[s], now)
    IN  IF lloc'[p].err = ""
        THEN /\ rb.tokens > 0
             /\ buckets'[s].tokens = rb.tokens - 1
        ELSE /\ buckets'[s].tokens >= buckets[s].tokens
             /\ buckets'[s].tokens \in {buckets[s].tokens, rb.tokens}

\* C37: tokens are conserved under concurrency.  A Wait that returns nil
\* lowers the token count of its bucket by exactly one, a Wait that returns an
\* error or is cancelled takes none, and the Wait calls on one bucket take
\* their turns inside it, so that no two of them succeed on one token.
C37_TokensConserved ==
    /\ [](\A s \in Shops : /\ Cardinality(Sleepers(s)) <= 1
                           /\ \A p \in Sleepers(s) : buckets[s].mu = p)
    /\ [][\A p \in LProcs : LReturns(p, "Wait") => WaitConserves(p)]_vars

\* A Wait has taken the last token of a bucket while a second Wait on the
\* same bucket stood at its mutex.
C37_Witness ==
    \E p \in LProcs, q \in LProcs :
        /\ lpc[p] = "ret"
        /\ lloc[p].op = "Wait"
        /\ lloc[p].err = ""
        /\ lpc[q] = "w_lock"
        /\ lloc[q].shop = lloc[p].shop
        /\ buckets[lloc[p].shop].tokens = 0
\* ------------------------------------------- claims on webhook persistence

\* C38: the webhook endpoint hands an event to ProcessWebhook only after the
\* signature of the raw request body has verified, and always with verified
\* = true; a request whose signature is missing or wrong, and any request
\* answered 400 or 401, is never persisted.
C38_OnlyVerifiedPersisted ==
    resp.served =>
        /\ resp.event.made =>
              /\ vres.fn = "Verify"
              /\ vres.err = VerifyOk
              /\ vres.body = resp.payload
              /\ vres.header = resp.hmacHeader
              /\ resp.event.payload = resp.payload
              /\ resp.event.verified
        /\ resp.logged => resp.event.made
        /\ (vres.fn # "Verify" \/ vres.err # VerifyOk) =>
              ~resp.event.made /\ ~resp.logged
        /\ resp.status \in {StatusBadRequest, StatusUnauthorized} =>
              ~resp.event.made /\ ~resp.logged

\* A request with a good signature has been persisted as a verified event.
C38_Witness ==
    /\ resp.served
    /\ resp.logged
    /\ resp.event.verified
    /\ resp.event.payload = resp.payload
    /\ resp.status = StatusOK
\* ------------------------------------------------- claims on the OAuth flow

\* C39: a state value authorises at most one token exchange, whatever the
\* interleaving of the callbacks that carry it; and a callback whose state
\* has no session, or whose session is of another shop, never reaches
\* ExchangeToken.
C39_OneExchangePerState ==
    /\ \A st \in OAuthStates : exchanged[st] <= 1
    /\ \A p \in CProcs :
          cb[p].pc \in {"delete", "exchange"} =>
              /\ cb[p].session.found
              /\ cb[p].session.Shop = cb[p].shop

\* ---------------------------------------------- claims on the response cache

\* An entry that is there and has not expired.
Live(entry) == entry.exists /\ ~Expired(entry, ctime)

\* C40: Get never removes or hides a live entry (a value a Set has stored
\* while a Get of the same key that saw an expired entry was on its way is
\* still there when both are done) and Get answers (value, true) only for an
\* entry whose expiry has not passed.
C40_GetKeepsLiveEntries ==
    [][\A p \in GProcs :
          /\ (cc[p].pc = "g_lock" /\ cc'[p].pc = "ret") =>
                \A k \in CacheKeys : Live(entries[k]) => entries'[k] = entries[k]
          /\ (cc[p].pc # "ret" /\ cc'[p].pc = "ret" /\ cc'[p].op = "Get" /\ cc'[p].ok) =>
                /\ Live(entries[cc'[p].key])
                /\ cc'[p].data = entries[cc'[p].key].Data]_vars
====
